---------------------------- MODULE Spec2Model ----------------------------
(***************************************************************************)
(* A model of the ed25519-fun crate (Ed25519 keys, signing, verification). *)
(*                                                                         *)
(* Five layers are modelled, each under a specification of its own:        *)
(*                                                                         *)
(*   SpecRange  check_lt_l of public.rs on 32-byte inputs, with the        *)
(*              source's own array L, byte for byte.                       *)
(*   SpecBytes  the byte containers (SecretKey, PublicKey, Signature,      *)
(*              Keypair): from_bytes, as_bytes, copy and drop, at the      *)
(*              source's sizes (32 and 64 bytes).                          *)
(*   Spec       key generation, sign and verify over the curve             *)
(*              arithmetic of group_element.rs and field_element.rs.       *)
(*   SpecGroup  the functions of group_element.rs one at a time: select,   *)
(*              radix16, the scalar multiplications, decode and encode.    *)
(*   SpecField  the functions of field_element.rs one at a time: encode    *)
(*              and decode on limbs, and invert.                           *)
(*                                                                         *)
(* TLC's integers are 32 bits wide, so the arithmetic of Spec runs at a    *)
(* reduced width: every 32-byte quantity of the source is ScalarBytes = 2  *)
(* bytes, the field prime 2^255 - 19 is 2^15 - 19, the group order         *)
(* 2^252 + 277...493 is 2^12 - 23, and each loop bound of the source       *)
(* (256 bits, 64 nibbles, 32 table positions) is the same expression in    *)
(* ScalarBytes.  The algorithms are the source's, statement by statement.  *)
(* A FieldElement is modelled by the integer its five limbs represent.     *)
(***************************************************************************)
EXTENDS Integers, Sequences, FiniteSets, TLC

VARIABLES
    rc,         \* SpecRange: the call of check_lt_l: [s, called, ret]
    slice,      \* SpecBytes: the byte slice handed to from_bytes
    obj,        \* SpecBytes: the value from_bytes returned
    out,        \* SpecBytes: what as_bytes returned for obj
    mem,        \* SpecBytes: the storage of every SecretKey value made
    seed,       \* Spec: which hash function stands for SHA-512
    keypair,    \* Spec: the Keypair in hand: [secret, public]
    signing,    \* Spec: the last call of SecretKey::sign
    verifying,  \* Spec: the last call of PublicKey::verify
    call        \* SpecField, SpecGroup: the function applied: [op, arg, ret]

rangeVars == <<rc>>
byteVars == <<slice, obj, out, mem>>
protoVars == <<seed, keypair, signing, verifying>>
callVars == <<call>>
vars == <<rc, slice, obj, out, mem, seed, keypair, signing, verifying, call>>

(***************************************************************************)
(* u8 arithmetic.                                                          *)
(***************************************************************************)
Byte == 0..255

\* Bit i of the integer x.
Bit(x, i) == (x \div 2^i) % 2

\* The bitwise operation on the low eight bits of a and b; op is a truth
\* table indexed by 2*bit(a) + bit(b) + 1.
BitOp(op, a, b) ==
    op[2 * Bit(a, 0) + Bit(b, 0) + 1]
        + 2 * op[2 * Bit(a, 1) + Bit(b, 1) + 1]
        + 4 * op[2 * Bit(a, 2) + Bit(b, 2) + 1]
        + 8 * op[2 * Bit(a, 3) + Bit(b, 3) + 1]
        + 16 * op[2 * Bit(a, 4) + Bit(b, 4) + 1]
        + 32 * op[2 * Bit(a, 5) + Bit(b, 5) + 1]
        + 64 * op[2 * Bit(a, 6) + Bit(b, 6) + 1]
        + 128 * op[2 * Bit(a, 7) + Bit(b, 7) + 1]

BitAnd(a, b) == BitOp(<<0, 0, 0, 1>>, a, b)
BitOr(a, b) == BitOp(<<0, 1, 1, 1>>, a, b)
BitXor(a, b) == BitOp(<<0, 1, 1, 0>>, a, b)

\* `x as u8` of a signed integer x: its low eight bits.
AsU8(x) == x % 256

\* `x >> 8` of an i32: an arithmetic shift, which rounds down.
Sar8(x) == x \div 256

Zeros(n) == [i \in 1..n |-> 0]

\* e, with v evaluated first.  TLC evaluates an operator's argument when it
\* is first used; evaluating a loop's variables at each iteration keeps the
\* evaluation of a long loop flat.
Strict(v, e) == IF v = v THEN e ELSE e

(***************************************************************************)
(* public.rs: the range check of the S half of a signature.                *)
(***************************************************************************)
L ==
    << 16,   0,   0,   0,   0,   0,   0,   0,   0,   0,   0,   0,   0,   0,   0,   0,
       20, 222, 249, 222, 162, 247, 156, 214,  88,  18,  99,  26,  92, 245, 211, 237 >>

RECURSIVE check_lt_l_loop(_, _, _, _, _)
\* The loop body at index i (0-based, as in the source), then the rest of
\* the loop down to i = 0; the result is the final c.
check_lt_l_loop(s, l, i, c, n) ==
    LET c1 == BitOr(c, BitAnd(AsU8(Sar8(s[i + 1] - l[i + 1])), n))
        n1 == BitAnd(n, AsU8(Sar8(BitXor(s[i + 1], l[i + 1]) - 1)))
    IN  IF i = 0 THEN c1
        ELSE Strict(<<c1, n1>>, check_lt_l_loop(s, l, i - 1, c1, n1))

\* check_lt_l over the array l: c = 0, n = 1, i from the last index down.
check_lt_l_with(s, l) == check_lt_l_loop(s, l, Len(l) - 1, 0, 1) = 0

check_lt_l(s) == check_lt_l_with(s, L)

(***************************************************************************)
(* The values the variables of the other layers keep under a specification *)
(* that does not use them.                                                 *)
(***************************************************************************)
IdleRange == rc = [s |-> <<>>, called |-> FALSE, ret |-> FALSE]

IdleBytes ==
    /\ slice = <<>>
    /\ obj = [type |-> "none", result |-> "none", value |-> <<>>]
    /\ out = <<>>
    /\ mem = <<>>

IdleProto ==
    /\ seed = 0
    /\ keypair = [secret |-> <<>>, public |-> <<>>]
    /\ signing = [called |-> FALSE]
    /\ verifying = [called |-> FALSE]

IdleCall == call = [op |-> "none"]

(***************************************************************************)
(* SpecRange: check_lt_l on 32-byte inputs around the values that matter.  *)
(***************************************************************************)
\* The group order l = 2^252 + 27742317777372353535851937790883648493 as a
\* 32-byte little-endian integer (RFC 8032), the form the S half has.
GroupOrderLE ==
    << 237, 211, 245,  92,  26,  99,  18,  88, 214, 156, 247, 162, 222, 249, 222,  20,
         0,   0,   0,   0,   0,   0,   0,   0,   0,   0,   0,   0,   0,   0,   0,  16 >>

RECURSIVE LessLE(_, _, _)
\* a < b for little-endian byte strings of equal length, deciding from
\* byte i (1-based) downwards.
LessLE(a, b, i) ==
    IF i = 0 THEN FALSE
    ELSE IF a[i] # b[i] THEN a[i] < b[i]
    ELSE LessLE(a, b, i - 1)

IsCanonicalS(s) == LessLE(s, GroupOrderLE, Len(s))

MaxDelta == 1

Clamp8(x) == IF x < 0 THEN 0 ELSE IF x > 255 THEN 255 ELSE x

RangeBases == {GroupOrderLE, L, Zeros(32), [i \in 1..32 |-> 255]}

RangeInputs ==
    { [base EXCEPT ![i] = Clamp8(base[i] + d)] :
        base \in RangeBases, i \in 1..32, d \in (0 - MaxDelta)..MaxDelta }

InitRange ==
    /\ IdleCall
    /\ rc \in { [s |-> s, called |-> FALSE, ret |-> FALSE] : s \in RangeInputs }
    /\ IdleBytes
    /\ IdleProto

CheckLtL ==
    /\ ~rc.called
    /\ rc' = [rc EXCEPT !.called = TRUE, !.ret = check_lt_l(rc.s)]
    /\ UNCHANGED <<byteVars, protoVars, callVars>>

NextRange == CheckLtL

SpecRange == InitRange /\ [][NextRange]_vars

\* C2: check_lt_l(S) is true exactly for the 32-byte S >= l, the values
\* verify must reject, and false for every S < l.
C2_RangeCheckRejectsExactlyNonCanonical ==
    rc.called => (rc.ret = ~IsCanonicalS(rc.s))

(***************************************************************************)
(* constants.rs, keypair.rs: the sizes of the byte containers.             *)
(***************************************************************************)
PublicKeySize == 32

SecretKeySize == 32

SignatureSize == 64

\* as_bytes returns [u8; 64] from an array [0u8; KeypairSize].
KeypairSize == 64

(***************************************************************************)
(* secret.rs, public.rs, signature.rs, keypair.rs, ed25519.rs: from_bytes  *)
(* and as_bytes.  A result is [result, value]: result is "Ok" or the name  *)
(* of the Error returned, value the bytes the new value holds.             *)
(***************************************************************************)
Err(e) == [result |-> e, value |-> <<>>]

Ok(v) == [result |-> "Ok", value |-> v]

\* dst.copy_from_slice(src) for dst = [0u8; n]: the bytes of src, in order.
copy_from_slice(n, src) == [i \in 1..n |-> src[i]]

SecretKey_from_bytes_wrong_error(bytes) ==
    IF Len(bytes) # SecretKeySize THEN Err("InvalidPublicKey")
    ELSE Ok(copy_from_slice(SecretKeySize, bytes))

SecretKey_from_bytes(bytes) ==
    IF Len(bytes) # SecretKeySize THEN Err("InvalidSecretKey")
    ELSE Ok(copy_from_slice(SecretKeySize, bytes))

PublicKey_from_bytes(bytes) ==
    IF Len(bytes) # PublicKeySize THEN Err("InvalidPublicKey")
    ELSE Ok(copy_from_slice(PublicKeySize, bytes))

Signature_from_bytes(bytes) ==
    IF Len(bytes) # SignatureSize THEN Err("InvalidSignatureLength")
    ELSE Ok(copy_from_slice(SignatureSize, bytes))

Keypair_from_bytes(bytes) ==
    IF Len(bytes) # KeypairSize THEN Err("InvalidKeypair")
    ELSE Ok([secret |-> copy_from_slice(SecretKeySize, SubSeq(bytes, 1, SecretKeySize)),
             public |-> copy_from_slice(PublicKeySize,
                                        SubSeq(bytes, SecretKeySize + 1, Len(bytes)))])

SecretKey_as_bytes(self) == self

PublicKey_as_bytes(self) == self

Signature_as_bytes(self) == self

Keypair_as_bytes_halves_swapped(self) ==
    [i \in 1..KeypairSize |->
        IF i <= PublicKeySize THEN self.public[i] ELSE self.secret[i - PublicKeySize]]

\* keypair[..SecretKeySize] is the secret, keypair[SecretKeySize..] the public.
Keypair_as_bytes(self) ==
    [i \in 1..KeypairSize |->
        IF i <= SecretKeySize THEN self.secret[i] ELSE self.public[i - SecretKeySize]]

\* The container types.  The crate declares SecretKey twice: in secret.rs
\* and in ed25519.rs.
Types == {"SecretKey", "PublicKey", "Signature", "Keypair", "ed25519::SecretKey"}

SecretKeyTypes == {"SecretKey", "ed25519::SecretKey"}

from_bytes(type, bytes) ==
    CASE type = "SecretKey" -> SecretKey_from_bytes(bytes)
      [] type = "ed25519::SecretKey" -> SecretKey_from_bytes(bytes)
      [] type = "PublicKey" -> PublicKey_from_bytes(bytes)
      [] type = "Signature" -> Signature_from_bytes(bytes)
      [] type = "Keypair" -> Keypair_from_bytes(bytes)

as_bytes(type, self) ==
    CASE type = "SecretKey" -> SecretKey_as_bytes(self)
      [] type = "ed25519::SecretKey" -> SecretKey_as_bytes(self)
      [] type = "PublicKey" -> PublicKey_as_bytes(self)
      [] type = "Signature" -> Signature_as_bytes(self)
      [] type = "Keypair" -> Keypair_as_bytes(self)

(***************************************************************************)
(* secret.rs, ed25519.rs: what the derives of a SecretKey type give it.    *)
(***************************************************************************)
\* #[derive(Zeroize)] #[zeroize(drop)] in secret.rs; ed25519.rs has neither.
ZeroizeOnDrop(type) == type = "SecretKey"

\* #[derive(Copy, Clone)] in ed25519.rs; secret.rs derives neither.
IsCopy(type) == type = "ed25519::SecretKey"

\* The bytes left in a SecretKey's buffer once the value is dropped.
SecretKey_drop(type, bytes) ==
    IF ZeroizeOnDrop(type) THEN Zeros(Len(bytes)) ELSE bytes

(***************************************************************************)
(* SpecBytes: a caller makes a value from a slice, reads it back, and, for *)
(* a SecretKey, copies it where the type allows and drops it.              *)
(***************************************************************************)
MaxSliceLen == 66

MaxFill == 2

MaxBuffers == 2

\* The slices handed to from_bytes: every length, a few contents.
Slices ==
    { [i \in 1..n |-> (a * (i + 6)) % 256] : n \in 0..MaxSliceLen, a \in 0..MaxFill }

InitBytes ==
    /\ IdleCall
    /\ IdleBytes
    /\ IdleRange
    /\ IdleProto

FromBytes ==
    \E type \in Types, bytes \in Slices :
        LET r == from_bytes(type, bytes)
        IN  /\ obj.type = "none"
            /\ slice' = bytes
            /\ obj' = [type |-> type, result |-> r.result, value |-> r.value]
            /\ out' = <<>>
            /\ mem' = IF type \in SecretKeyTypes /\ r.result = "Ok"
                      THEN <<[bytes |-> r.value, dropped |-> FALSE, copy |-> FALSE]>>
                      ELSE <<>>
            /\ UNCHANGED <<rangeVars, protoVars, callVars>>

AsBytes ==
    /\ obj.result = "Ok"
    /\ out = <<>>
    /\ out' = as_bytes(obj.type, obj.value)
    /\ UNCHANGED <<slice, obj, mem, rangeVars, protoVars, callVars>>

\* `let b = a;` with both a and b in use afterwards: allowed for a Copy type.
CopySecretKey ==
    \E i \in DOMAIN mem :
        /\ IsCopy(obj.type)
        /\ ~mem[i].dropped
        /\ Len(mem) < MaxBuffers
        /\ mem' = Append(mem, [bytes |-> mem[i].bytes, dropped |-> FALSE, copy |-> TRUE])
        /\ UNCHANGED <<slice, obj, out, rangeVars, protoVars, callVars>>

DropSecretKey ==
    \E i \in DOMAIN mem :
        /\ ~mem[i].dropped
        /\ mem' = [mem EXCEPT ![i] = [@ EXCEPT !.dropped = TRUE,
                                              !.bytes = SecretKey_drop(obj.type, @)]]
        /\ UNCHANGED <<slice, obj, out, rangeVars, protoVars, callVars>>

NextBytes ==
    \/ FromBytes
    \/ AsBytes
    \/ CopySecretKey
    \/ DropSecretKey

SpecBytes == InitBytes /\ [][NextBytes]_vars

\* The Error each from_bytes returns for a slice of the wrong length, and
\* the one length it accepts.
ExpectedFromBytes(type, n) ==
    CASE type \in SecretKeyTypes -> IF n = 32 THEN "Ok" ELSE "InvalidSecretKey"
      [] type = "PublicKey" -> IF n = 32 THEN "Ok" ELSE "InvalidPublicKey"
      [] type = "Signature" -> IF n = 64 THEN "Ok" ELSE "InvalidSignatureLength"
      [] type = "Keypair" -> IF n = 64 THEN "Ok" ELSE "InvalidKeypair"

\* C5: from_bytes is Ok exactly for a slice of the type's length (32, 32, 64,
\* 64 bytes) and otherwise returns the type's own length error, whatever the
\* bytes are.
C5_FromBytesChecksLengthOnly ==
    obj.type # "none" => obj.result = ExpectedFromBytes(obj.type, Len(slice))

C5_Witness ==
    /\ obj.type = "Keypair"
    /\ Len(slice) = 65
    /\ obj.result = "InvalidKeypair"
    /\ slice[1] # 0

\* C6: as_bytes of the value from_bytes made is the slice it was made from;
\* a Keypair's bytes 0..32 are its secret key and bytes 32..64 its public key.
C6_AsBytesRoundTrip ==
    out # <<>> =>
        /\ out = slice
        /\ obj.type = "Keypair" =>
            /\ SubSeq(out, 1, 32) = obj.value.secret
            /\ SubSeq(out, 33, 64) = obj.value.public

C6_Witness ==
    /\ obj.type = "Keypair"
    /\ out # <<>>
    /\ out[1] # out[33]

\* C9: a dropped SecretKey's buffer holds zeros only, and no SecretKey
\* buffer is an implicit copy of another.
C9_DroppedSecretKeyIsWiped ==
    \A i \in DOMAIN mem :
        /\ mem[i].dropped => mem[i].bytes = Zeros(32)
        /\ ~mem[i].copy

(***************************************************************************)
(* The width the arithmetic of Spec runs at.  A key, a scalar and an       *)
(* encoded field element or point are ScalarBytes bytes (32 in the source) *)
(* and a hash is twice that (64 in the source).                            *)
(***************************************************************************)
ScalarBytes == 2

HashBytes == 2 * ScalarBytes

\* The bits of a scalar: 256 in the source.
ScalarBits == 8 * ScalarBytes

\* The bits of a field element, 5 limbs of 51 bits: 255 in the source.
FieldBits == ScalarBits - 1

RECURSIVE FromLE(_)
\* The integer a little-endian byte string stands for.
FromLE(bytes) ==
    IF bytes = <<>> THEN 0 ELSE Head(bytes) + 256 * FromLE(Tail(bytes))

RECURSIVE ToLE(_, _)
\* The low n bytes of the integer v, little-endian.
ToLE(v, n) ==
    IF n = 0 THEN <<>> ELSE <<v % 256>> \o ToLE(v \div 256, n - 1)

(***************************************************************************)
(* curve25519_const.rs: the field and curve constants.                    *)
(***************************************************************************)
\* The field prime p: 2^255 - 19 in the source.
P == 2^FieldBits - 19

\* TwoP0 and TwoP1234, as the integer the five limbs stand for: 2 * p.
TwoP == 2 * P

\* Reduce51Mask on each of the five limbs: the low 255 bits.
ReduceMask == 2^FieldBits

\* -121665/121666 mod p in the source; -17 mod p at this width.
D == P - 17

D2 == (2 * D) % P

\* 2^((p - 1) / 4) mod p, a square root of -1.
I == 15645

FieldZero == 0

FieldOne == 1

(***************************************************************************)
(* field_element.rs.  A FieldElement is the integer f[0] + f[1]*2^51 + ... *)
(* + f[4]*2^204 of its limbs; it need not be below p.                      *)
(***************************************************************************)
\* reduce: carry each limb into the next, keep 51 bits of each, and add 19
\* times the carry out of the top limb to limb 0.
FieldElement_reduce(limbs) == (limbs % ReduceMask) + 19 * (limbs \div ReduceMask)

FieldElement_add(f, g) == f + g

FieldElement_sub(f, g) == FieldElement_reduce((f + TwoP) - g)

\* mul: the 5x5 schoolbook product with 2^255 folded to 19 and the carries
\* propagated; the result is f * g mod p up to a multiple of p, and is
\* modelled by its canonical value.
FieldElement_mul(f, g) == ((f % P) * (g % P)) % P

RECURSIVE FieldElement_square_times(_, _)
FieldElement_square_times(f, pow) ==
    Strict(f,
        IF pow = 0 THEN f
        ELSE FieldElement_square_times(FieldElement_mul(f, f), pow - 1))

FieldElement_square(f) == FieldElement_square_times(f, 1)

FieldElement_double_square(f) == 2 * FieldElement_square_times(f, 1)

\* negate with the subtraction from 2 p left out.
FieldElement_negate_not_negated(f) == FieldElement_reduce(f)

FieldElement_negate(f) == FieldElement_reduce(TwoP - f)

\* encode: reduce, q = the carry of h + 19 out of bit 255, h += 19 * q,
\* carry, drop the carry out of the top limb, and pack little-endian.
FieldElement_encode(f) ==
    LET pack(h, q) == ToLE((h + 19 * q) % ReduceMask, ScalarBytes)
        carry(h) == pack(h, (h + 19) \div ReduceMask)
    IN  carry(FieldElement_reduce(f))

\* The decode that keeps bit 255.
FieldElement_decode_keeping_top_bit(h) == FromLE(h)

\* decode: five 51-bit limbs loaded from the bytes; bit 255 is ignored.
FieldElement_decode(h) == FromLE(h) % ReduceMask

FieldElement_ct_eq(f, g) == FieldElement_encode(f) = FieldElement_encode(g)

\* is_zero and is_negative return a Choice: 1 or 0.
FieldElement_is_zero(f) == IF FieldElement_encode(f) = Zeros(ScalarBytes) THEN 1 ELSE 0

FieldElement_is_negative(f) == FieldElement_encode(f)[1] % 2

\* conditional_assign(self, b, choice): b if choice is 1, else self.
FieldElement_conditional_assign(self, b, choice) == IF choice = 1 THEN b ELSE self

\* pow22501: (f^11, f^(2^250 - 1)) in the source.  The chain is the
\* source's up to its step "2^10 - 2^0", where this width's exponent
\* 2^(FieldBits - 5) - 1 is reached.  Each step receives the earlier
\* values it uses: t0a = f^2, t1b = f^9, t0b = f^11, t1c = f^(2^5 - 2^0).
FieldElement_pow22501(f) ==
    LET from_t1c(t0b, t1c) ==
            Strict(t1c,
                <<t0b,
                  FieldElement_mul(
                      FieldElement_square_times(FieldElement_square(t1c), 4),
                      t1c)>>)
        from_t0b(t1b, t0b) ==
            Strict(t0b,
                from_t1c(t0b, FieldElement_mul(t1b, FieldElement_square(t0b))))
        from_t1b(t0a, t1b) ==
            Strict(t1b, from_t0b(t1b, FieldElement_mul(t0a, t1b)))
        from_t0a(t0a) ==
            Strict(t0a,
                from_t1b(t0a,
                    FieldElement_mul(
                        f, FieldElement_square(FieldElement_square(t0a)))))
    IN  Strict(f, from_t0a(FieldElement_square(f)))

\* pow22523 with one squaring of a in place of two.
FieldElement_pow22523_one_squaring(f) ==
    LET finish(ab) ==
            Strict(ab, FieldElement_mul(f, FieldElement_square(ab[2])))
    IN  finish(FieldElement_pow22501(f))

\* pow22523: f^(2^252 - 3) in the source, f^((p - 5) / 8).
FieldElement_pow22523(f) ==
    LET finish(ab) ==
            Strict(ab,
                FieldElement_mul(
                    f, FieldElement_square(FieldElement_square(ab[2]))))
    IN  finish(FieldElement_pow22501(f))

\* invert with four squarings of b in place of five.
FieldElement_invert_four_squarings(f) ==
    LET finish(ab) ==
            Strict(ab,
                FieldElement_mul(ab[1], FieldElement_square_times(ab[2], 4)))
    IN  finish(FieldElement_pow22501(f))

\* invert: f^(2^255 - 21) in the source, f^(p - 2).
FieldElement_invert(f) ==
    LET finish(ab) ==
            Strict(ab,
                FieldElement_mul(ab[1], FieldElement_square_times(ab[2], 5)))
    IN  finish(FieldElement_pow22501(f))

(***************************************************************************)
(* curve25519/utils.rs                                                     *)
(***************************************************************************)
\* equal with the loop left at i = 0: only bit 0 of xor is looked at.
equal_low_bit(b, c) ==
    BitAnd(BitXor(BitXor(b, c) % 2, 1), 1)

\* equal(b, c): 1 if the bytes are equal, else 0.  result collects
\* xor >> i for i in 0..8, so its bit 0 is set iff xor is not 0.
equal(b, c) ==
    LET xor == BitXor(b, c)
        result == IF \E i \in 0..7 : (xor \div 2^i) % 2 = 1 THEN 1 ELSE 0
    IN  BitAnd(BitXor(result, 1), 1)

Min(a, b) == IF a < b THEN a ELSE b

(***************************************************************************)
(* curve25519/group_element.rs.  P2 is (X, Y, Z), P3 is (X, Y, Z, T),      *)
(* P1P1 is ((X, Z), (Y, T)), Cached is (Y + X, Y - X, Z, 2 d T) and        *)
(* Precomp is (y + x, y - x, 2 d x y).                                      *)
(***************************************************************************)
P1P1_to_P2(self) ==
    Strict(<<self>>,
    [X |-> FieldElement_mul(self.X, self.T),
     Y |-> FieldElement_mul(self.Y, self.Z),
     Z |-> FieldElement_mul(self.Z, self.T)])

\* to_P3 with T left as it is in P1P1, not X * Y.
P1P1_to_P3_T_kept(self) ==
    [X |-> FieldElement_mul(self.X, self.T),
     Y |-> FieldElement_mul(self.Y, self.Z),
     Z |-> FieldElement_mul(self.Z, self.T),
     T |-> self.T]

P1P1_to_P3(self) ==
    Strict(<<self>>,
    [X |-> FieldElement_mul(self.X, self.T),
     Y |-> FieldElement_mul(self.Y, self.Z),
     Z |-> FieldElement_mul(self.Z, self.T),
     T |-> FieldElement_mul(self.X, self.Y)])

P2_zero == [X |-> FieldZero, Y |-> FieldOne, Z |-> FieldOne]

\* encode: the bytes of y with the sign of x in the top bit of the last.
P2_encode(self) ==
    Strict(<<self>>,
    LET pack(x, s) ==
            [s EXCEPT ![ScalarBytes] =
                 BitXor(s[ScalarBytes],
                        AsU8(FieldElement_is_negative(x) * 128))]
        scale(recip) ==
            Strict(recip,
                pack(FieldElement_mul(self.X, recip),
                     FieldElement_encode(FieldElement_mul(self.Y, recip))))
    IN  scale(FieldElement_invert(self.Z)))

P2_double(self) ==
    Strict(<<self>>,
    LET result(a, b, y, z) ==
            [X |-> FieldElement_sub(b, y), Y |-> y, Z |-> z,
             T |-> FieldElement_sub(a, z)]
        squares(xx, yy) ==
            result(FieldElement_double_square(self.Z),
                   FieldElement_square(FieldElement_add(self.X, self.Y)),
                   FieldElement_add(yy, xx),
                   FieldElement_sub(yy, xx))
    IN  squares(FieldElement_square(self.X), FieldElement_square(self.Y)))

P3_zero == [X |-> FieldZero, Y |-> FieldOne, Z |-> FieldOne, T |-> FieldZero]

P3_to_P2(self) == [X |-> self.X, Y |-> self.Y, Z |-> self.Z]

P3_to_Cached(self) ==
    Strict(<<self>>,
    [YpX |-> FieldElement_add(self.Y, self.X),
     YmX |-> FieldElement_sub(self.Y, self.X),
     Z |-> self.Z,
     T2d |-> FieldElement_mul(self.T, D2)])

P3_encode(self) ==
    Strict(<<self>>,
    LET pack(x, s) ==
            [s EXCEPT ![ScalarBytes] =
                 BitXor(s[ScalarBytes],
                        AsU8(FieldElement_is_negative(x) * 128))]
        scale(recip) ==
            Strict(recip,
                pack(FieldElement_mul(self.X, recip),
                     FieldElement_encode(FieldElement_mul(self.Y, recip))))
    IN  scale(FieldElement_invert(self.Z)))

P3_double(self) == P2_double(P3_to_P2(self))

None == [some |-> FALSE]

Some(v) == [some |-> TRUE, value |-> v]

\* decode with the root negated when its sign DIFFERS from the top bit.
P3_decode_sign_not_equal(enc) ==
    Strict(enc,
    LET point(y, root) ==
            LET negated(x) ==
                    Some([X |-> x, Y |-> y, Z |-> FieldOne,
                          T |-> FieldElement_mul(x, y)])
            IN  negated(IF FieldElement_is_negative(root)
                               # enc[ScalarBytes] \div 128
                        THEN FieldElement_negate(root) ELSE root)
        check(y, u, x, vxx) ==
            Strict(vxx,
                IF FieldElement_is_zero(FieldElement_sub(vxx, u)) # 0
                THEN point(y, x)
                ELSE IF FieldElement_is_zero(FieldElement_add(vxx, u)) = 0
                THEN None
                ELSE point(y, FieldElement_mul(x, I)))
        root(y, u, v, x) ==
            Strict(x,
                check(y, u, x, FieldElement_mul(FieldElement_square(x), v)))
        raised(y, u, v, v3, w) ==
            Strict(w,
                root(y, u, v,
                     FieldElement_mul(
                         FieldElement_mul(FieldElement_pow22523(w), u), v3)))
        power(y, u, v, v3) ==
            Strict(v3,
                raised(y, u, v, v3,
                       FieldElement_mul(
                           u,
                           FieldElement_mul(FieldElement_square(v3), v))))
        cube(y, u, v) ==
            Strict(<<u, v>>,
                power(y, u, v, FieldElement_mul(FieldElement_square(v), v)))
        split(y, yy) ==
            Strict(yy,
                cube(y, FieldElement_sub(yy, FieldOne),
                     FieldElement_add(FieldElement_mul(yy, D), FieldOne)))
        load(y) == Strict(y, split(y, FieldElement_square(y)))
    IN  load(FieldElement_decode(enc)))

\* decode: y from the bytes and x = u v^3 (u v^7)^((p - 5) / 8) with
\* u = y^2 - 1 and v = d y^2 + 1.  If v x^2 = u that x is the root, if
\* v x^2 = -u the root is x I, otherwise the result is None.  The root is
\* negated when its sign EQUALS the top bit of the last byte.
P3_decode(enc) ==
    Strict(enc,
    LET point(y, root) ==
            LET negated(x) ==
                    Some([X |-> x, Y |-> y, Z |-> FieldOne,
                          T |-> FieldElement_mul(x, y)])
            IN  negated(IF FieldElement_is_negative(root)
                               = enc[ScalarBytes] \div 128
                        THEN FieldElement_negate(root) ELSE root)
        check(y, u, x, vxx) ==
            Strict(vxx,
                IF FieldElement_is_zero(FieldElement_sub(vxx, u)) # 0
                THEN point(y, x)
                ELSE IF FieldElement_is_zero(FieldElement_add(vxx, u)) = 0
                THEN None
                ELSE point(y, FieldElement_mul(x, I)))
        root(y, u, v, x) ==
            Strict(x,
                check(y, u, x, FieldElement_mul(FieldElement_square(x), v)))
        raised(y, u, v, v3, w) ==
            Strict(w,
                root(y, u, v,
                     FieldElement_mul(
                         FieldElement_mul(FieldElement_pow22523(w), u), v3)))
        power(y, u, v, v3) ==
            Strict(v3,
                raised(y, u, v, v3,
                       FieldElement_mul(
                           u,
                           FieldElement_mul(FieldElement_square(v3), v))))
        cube(y, u, v) ==
            Strict(<<u, v>>,
                power(y, u, v, FieldElement_mul(FieldElement_square(v), v)))
        split(y, yy) ==
            Strict(yy,
                cube(y, FieldElement_sub(yy, FieldOne),
                     FieldElement_add(FieldElement_mul(yy, D), FieldOne)))
        load(y) == Strict(y, split(y, FieldElement_square(y)))
    IN  load(FieldElement_decode(enc)))

\* impl Add<Cached> for P3
P3_add_Cached(self, p) ==
    Strict(<<self, p>>,
    LET result(a, b, c, d) ==
            [X |-> FieldElement_sub(a, b), Y |-> FieldElement_add(a, b),
             Z |-> FieldElement_add(d, c), T |-> FieldElement_sub(d, c)]
        twice(d) == FieldElement_add(d, d)
    IN  result(FieldElement_mul(FieldElement_add(self.Y, self.X), p.YpX),
               FieldElement_mul(FieldElement_sub(self.Y, self.X), p.YmX),
               FieldElement_mul(p.T2d, self.T),
               twice(FieldElement_mul(self.Z, p.Z))))

\* impl Sub<Cached> for P3
P3_sub_Cached(self, p) ==
    Strict(<<self, p>>,
    LET result(a, b, c, d) ==
            [X |-> FieldElement_sub(a, b), Y |-> FieldElement_add(a, b),
             Z |-> FieldElement_sub(d, c), T |-> FieldElement_add(d, c)]
        twice(d) == FieldElement_add(d, d)
    IN  result(FieldElement_mul(FieldElement_add(self.Y, self.X), p.YmX),
               FieldElement_mul(FieldElement_sub(self.Y, self.X), p.YpX),
               FieldElement_mul(p.T2d, self.T),
               twice(FieldElement_mul(self.Z, p.Z))))

\* impl Add<Precomp> for P3
P3_add_Precomp(self, p) ==
    Strict(<<self, p>>,
    LET result(a, b, c, d) ==
            [X |-> FieldElement_sub(a, b), Y |-> FieldElement_add(a, b),
             Z |-> FieldElement_add(d, c), T |-> FieldElement_sub(d, c)]
    IN  result(FieldElement_mul(FieldElement_add(self.Y, self.X), p.YpX),
               FieldElement_mul(FieldElement_sub(self.Y, self.X), p.YmX),
               FieldElement_mul(p.XY2d, self.T),
               FieldElement_add(self.Z, self.Z)))

\* impl Sub<Precomp> for P3
P3_sub_Precomp(self, p) ==
    Strict(<<self, p>>,
    LET result(a, b, c, d) ==
            [X |-> FieldElement_sub(a, b), Y |-> FieldElement_add(a, b),
             Z |-> FieldElement_sub(d, c), T |-> FieldElement_add(d, c)]
    IN  result(FieldElement_mul(FieldElement_add(self.Y, self.X), p.YmX),
               FieldElement_mul(FieldElement_sub(self.Y, self.X), p.YpX),
               FieldElement_mul(p.XY2d, self.T),
               FieldElement_add(self.Z, self.Z)))

(***************************************************************************)
(* The curve as mathematics: affine points <<x, y>> of                     *)
(* -x^2 + y^2 = 1 + d x^2 y^2 over the integers mod p, with the addition   *)
(* law, scalar multiplication by repeated addition, and the point          *)
(* encoding.  The tables of precomp.rs hold multiples of its base point,   *)
(* and the properties are stated against it.                               *)
(***************************************************************************)
MulP(a, b) == ((a % P) * (b % P)) % P

\* a^d mod p for d below 16.
PowDigit(a, d) ==
    LET by(a2) ==
            LET by4(a4) ==
                    MulP(MulP(IF d % 2 = 1 THEN a ELSE 1,
                              IF (d \div 2) % 2 = 1 THEN a2 ELSE 1),
                         MulP(IF (d \div 4) % 2 = 1 THEN a4 ELSE 1,
                              IF d \div 8 = 1 THEN MulP(a4, a4) ELSE 1))
            IN  by4(MulP(a2, a2))
    IN  by(MulP(a, a))

RECURSIVE PowP(_, _)
\* a^e mod p, four bits of e at a time.
PowP(a, e) ==
    IF e < 16 THEN PowDigit(a, e)
    ELSE LET h == PowP(a, e \div 16)
             sq(x) == MulP(x, x)
         IN  Strict(h, MulP(sq(sq(sq(sq(h)))), PowDigit(a, e % 16)))

InvP(a) == PowP(a, P - 2)

AffineZero == <<0, 1>>

AffineAdd(p, q) ==
    Strict(<<p, q>>,
    LET xx == MulP(p[1], q[1])
        yy == MulP(p[2], q[2])
        t == MulP(D, MulP(xx, yy))
    IN  <<MulP(MulP(p[1], q[2]) + MulP(q[1], p[2]), InvP(1 + t)),
          MulP(yy + xx, InvP((1 + P) - t))>>)

AffineNeg(p) == <<(P - p[1]) % P, p[2]>>

RECURSIVE AffineMul(_, _)
\* [n]p, two bits of n at a time.
AffineMul(n, p) ==
    IF n = 0 THEN AffineZero
    ELSE IF n = 1 THEN p
    ELSE LET h == AffineMul(n \div 4, p)
             twice(q) == AffineAdd(q, q)
             low(p2) ==
                 IF n % 4 = 0 THEN AffineZero
                 ELSE IF n % 4 = 1 THEN p
                 ELSE IF n % 4 = 2 THEN p2
                 ELSE AffineAdd(p2, p)
         IN  Strict(h, AffineAdd(twice(twice(h)), low(AffineAdd(p, p))))

OnCurve(p) ==
    LET xx == MulP(p[1], p[1])
        yy == MulP(p[2], p[2])
    IN  ((yy + P) - xx) % P = (1 + MulP(D, MulP(xx, yy))) % P

\* RFC 8032, 5.1.2: y little-endian, the low bit of x in the top bit.
AffineEncode(p) == ToLE(p[2] + ReduceMask * (p[1] % 2), ScalarBytes)

\* The group order l of the base point: 2^252 + 277423177773723535358519377
\* 90883648493 in the source.
GroupOrder == 2^12 - 23

\* The base point B = (x, 4/5) with x even (the source: "positive").
BasePoint == <<3870, MulP(4, InvP(5))>>

(***************************************************************************)
(* precomp.rs, which the crate uses and the source tree does not hold: two *)
(* tables of constants in Precomp form.  PRECOMP_BASE[pos][j] is           *)
(* (j + 1) 256^pos B and BI[j] is (2 j + 1) B in the source's indices,     *)
(* which start at 0; the indices here start at 1.  The entries are the     *)
(* values at this width, and PrecompTablesHoldMultiples relates them to    *)
(* the curve.                                                              *)
(***************************************************************************)
PRECOMP_BASE ==
    <<<<[YpX |-> 30070, YmX |-> 22330, XY2d |-> 25732],
        [YpX |-> 18717, YmX |-> 7926, XY2d |-> 23042],
        [YpX |-> 15036, YmX |-> 32722, XY2d |-> 10126],
        [YpX |-> 7788, YmX |-> 24809, XY2d |-> 16196],
        [YpX |-> 9825, YmX |-> 5138, XY2d |-> 27983],
        [YpX |-> 17413, YmX |-> 24769, XY2d |-> 31017],
        [YpX |-> 30777, YmX |-> 31796, XY2d |-> 29213],
        [YpX |-> 29962, YmX |-> 16120, XY2d |-> 21817]>>,
      <<[YpX |-> 21389, YmX |-> 22618, XY2d |-> 5038],
        [YpX |-> 7004, YmX |-> 235, XY2d |-> 11433],
        [YpX |-> 3978, YmX |-> 19192, XY2d |-> 16973],
        [YpX |-> 31073, YmX |-> 7978, XY2d |-> 29108],
        [YpX |-> 4830, YmX |-> 9936, XY2d |-> 26734],
        [YpX |-> 9479, YmX |-> 659, XY2d |-> 25681],
        [YpX |-> 15285, YmX |-> 13527, XY2d |-> 13387],
        [YpX |-> 21059, YmX |-> 27111, XY2d |-> 8055]>>>>

BI ==
    <<[YpX |-> 30070, YmX |-> 22330, XY2d |-> 25732],
      [YpX |-> 15036, YmX |-> 32722, XY2d |-> 10126],
      [YpX |-> 9825, YmX |-> 5138, XY2d |-> 27983],
      [YpX |-> 30777, YmX |-> 31796, XY2d |-> 29213],
      [YpX |-> 6756, YmX |-> 12076, XY2d |-> 10793],
      [YpX |-> 30158, YmX |-> 13697, XY2d |-> 5189],
      [YpX |-> 9169, YmX |-> 9140, XY2d |-> 22568],
      [YpX |-> 24379, YmX |-> 3889, XY2d |-> 24695]>>

ToPrecomp(p) ==
    [YpX |-> (p[2] + p[1]) % P,
     YmX |-> ((p[2] + P) - p[1]) % P,
     XY2d |-> MulP(D2, MulP(p[1], p[2]))]

RECURSIVE Pow256B(_)
Pow256B(pos) ==
    IF pos = 0 THEN BasePoint ELSE AffineMul(256, Pow256B(pos - 1))

PrecompTablesHoldMultiples ==
    /\ PRECOMP_BASE =
           [pos \in 1..ScalarBytes |->
               [j \in 1..8 |-> ToPrecomp(AffineMul(j, Pow256B(pos - 1)))]]
    /\ BI = [j \in 1..8 |-> ToPrecomp(AffineMul(2 * j - 1, BasePoint))]

\* A square root of u / v mod p, if there is one (p = 5 mod 8).
AffineSqrtRatio(u, v) ==
    LET decide(a, r) ==
            IF MulP(r, r) = a THEN Some(r)
            ELSE IF MulP(r, r) = (P - a) % P THEN Some(MulP(r, I))
            ELSE None
        power(a) == decide(a, PowP(a, (P + 3) \div 8))
    IN  power(MulP(u, InvP(v)))

\* The point a public key's bytes stand for: y from the low FieldBits bits,
\* taken mod p, and the x with x^2 = (y^2 - 1) / (d y^2 + 1) whose low bit is
\* the top bit; None if there is no such x.  x = 0 is taken with either top
\* bit.
AffineDecode(enc) ==
    LET signed(y, root) ==
            IF ~root.some THEN None
            ELSE IF root.value % 2 = enc[ScalarBytes] \div 128
            THEN Some(<<root.value, y>>)
            ELSE Some(<<(P - root.value) % P, y>>)
        solve(y, yy) ==
            signed(y, AffineSqrtRatio((yy + P - 1) % P, (MulP(D, yy) + 1) % P))
        load(y) == solve(y, MulP(y, y))
    IN  load((FromLE(enc) % ReduceMask) % P)

\* The y an encoding holds, its low 255 bits, and its top bit.
EncodedY(enc) == FromLE(enc) % ReduceMask

EncodedSign(enc) == enc[ScalarBytes] \div 128

(***************************************************************************)
(* curve25519/group_element.rs: Precomp and the fixed-base multiplication. *)
(***************************************************************************)
Precomp_zero == [YpX |-> FieldOne, YmX |-> FieldOne, XY2d |-> FieldZero]

Precomp_conditional_assign(self, b, choice) ==
    Strict(<<self, b, choice>>,
    [YpX |-> FieldElement_conditional_assign(self.YpX, b.YpX, choice),
     YmX |-> FieldElement_conditional_assign(self.YmX, b.YmX, choice),
     XY2d |-> FieldElement_conditional_assign(self.XY2d, b.XY2d, choice)])

RECURSIVE select_rows(_, _, _, _, _)
\* The conditional assignments of select for rows j to k, in order.
select_rows(t, pos, absolute, j, k) ==
    IF j = k
    THEN Precomp_conditional_assign(
             t, PRECOMP_BASE[pos + 1][j], equal(absolute, j))
    ELSE LET rest(t1) ==
                 Strict(t1, select_rows(t1, pos, absolute,
                                        j + (k - j + 1) \div 2, k))
         IN  rest(select_rows(t, pos, absolute, j,
                              j + (k - j + 1) \div 2 - 1))

\* select with the final conditional negation left out.
select_unsigned(pos, b) ==
    select_rows(Precomp_zero, pos,
                AsU8(b - 2 * (IF AsU8(b) \div 128 = 1 THEN b ELSE 0)), 1, 8)

\* select(pos, b): b is an i8; |b| 256^pos B, negated if b is negative.
select(pos, b) ==
    Strict(<<pos, b>>,
    LET negative == AsU8(b) \div 128
        negate(t) ==
            Precomp_conditional_assign(
                t,
                [YpX |-> t.YmX, YmX |-> t.YpX,
                 XY2d |-> FieldElement_negate(t.XY2d)],
                negative)
    IN  negate(select_rows(
                   Precomp_zero, pos,
                   AsU8(b - 2 * (IF negative = 1 THEN b ELSE 0)), 1, 8)))

\* radix16 without its second loop: the digits are the nibbles, 0 to 15.
radix16_nibbles(a) ==
    [i \in 1..(2 * Len(a)) |->
        IF i % 2 = 1 THEN BitAnd(a[(i + 1) \div 2], 15)
        ELSE BitAnd(a[i \div 2] \div 16, 15)]

RECURSIVE radix16_carry_dropped(_, _, _)
\* The second loop of radix16 without the statement after it: the last
\* carry is not added to the last digit.
radix16_carry_dropped(e, i, carry) ==
    IF i = Len(e) - 1 THEN e
    ELSE LET ei == e[i + 1] + carry
             c == (ei + 8) \div 16
             e1 == [e EXCEPT ![i + 1] = ei - 16 * c]
         IN  Strict(e1, radix16_carry_dropped(e1, i + 1, c))

RECURSIVE radix16_carry(_, _, _)
\* The second loop of radix16: digits into [-8, 7], the carry added to the
\* last.
radix16_carry(e, i, carry) ==
    IF i = Len(e) - 1 THEN [e EXCEPT ![i + 1] = e[i + 1] + carry]
    ELSE LET ei == e[i + 1] + carry
             c == (ei + 8) \div 16
             e1 == [e EXCEPT ![i + 1] = ei - 16 * c]
         IN  Strict(e1, radix16_carry(e1, i + 1, c))

radix16(a) ==
    LET e == [i \in 1..(2 * Len(a)) |->
                 IF i % 2 = 1 THEN BitAnd(a[(i + 1) \div 2], 15)
                 ELSE BitAnd(a[i \div 2] \div 16, 15)]
    IN  radix16_carry(e, 0, 0)

RECURSIVE scalar_multiply_loop(_, _, _)
\* for i in (i..2 * ScalarBytes).step_by(2): h = (h + select(i / 2, e[i]))
scalar_multiply_loop(h, e, i) ==
    Strict(<<h, e>>,
    IF i >= Len(e) THEN h
    ELSE scalar_multiply_loop(
             P1P1_to_P3(P3_add_Precomp(h, select(i \div 2, e[i + 1]))),
             e, i + 2))

\* scalar_multiply(a) = [a]B for a of ScalarBytes bytes: the odd digits,
\* four doublings, the even digits.
scalar_multiply(a) ==
    LET even(e, h) == Strict(h, scalar_multiply_loop(h, e, 0))
        doubled(h) ==
            P1P1_to_P3(P2_double(P1P1_to_P2(P2_double(
                P1P1_to_P2(P2_double(P1P1_to_P2(P3_double(h))))))))
        first(e, h) == Strict(h, even(e, doubled(h)))
        odd(e) == Strict(e, first(e, scalar_multiply_loop(P3_zero, e, 1)))
    IN  Strict(a, odd(radix16(a)))

\* BXP and BYP of scalar_multiply_without_precomputation: the encodings
\* of the coordinates of the base point.
BXP == ToLE(3870, ScalarBytes)

BYP == ToLE(26200, ScalarBytes)

RECURSIVE scalar_multiply_without_precomputation_loop(_, _, _, _)
\* for i in i..ScalarBits: ps = p + q, q = q + q, and p = ps if bit i of
\* the scalar is 1.
scalar_multiply_without_precomputation_loop(p, q, scalar, i) ==
    Strict(<<p, q>>,
    IF i >= ScalarBits THEN p
    ELSE LET step(q_cached) ==
                 scalar_multiply_without_precomputation_loop(
                     IF (scalar[(i \div 8) + 1] \div 2^(i % 8)) % 2 = 1
                     THEN P1P1_to_P3(P3_add_Cached(p, q_cached))
                     ELSE p,
                     P1P1_to_P3(P3_add_Cached(q, q_cached)),
                     scalar, i + 1)
         IN  step(P3_to_Cached(q)))

\* scalar_multiply_without_precomputation(scalar): double-and-add from the
\* base point, one step per bit of the scalar.
scalar_multiply_without_precomputation(scalar) ==
    LET start(bx, by) ==
            scalar_multiply_without_precomputation_loop(
                P3_zero,
                [X |-> bx, Y |-> by, Z |-> FieldOne,
                 T |-> FieldElement_mul(bx, by)],
                scalar, 0)
    IN  start(FieldElement_decode(BXP), FieldElement_decode(BYP))

(***************************************************************************)
(* curve25519/group_element.rs: the sliding windows and the variable-time  *)
(* double-scalar multiplication.  r[i + 1] here is the source's r[i].      *)
(***************************************************************************)
\* slide_carry with the digits before the first zero digit left as they
\* are.
slide_carry_without_clearing(r, k) ==
    IF \A j \in k..(Len(r) - 1) : r[j + 1] # 0 THEN r
    ELSE [r EXCEPT ![1 + CHOOSE j \in k..(Len(r) - 1) :
                            /\ r[j + 1] = 0
                            /\ \A h \in k..(j - 1) : r[h + 1] # 0] = 1]

\* The k at which for k in k..256 (the length of r) ends: the first k with
\* r[k] = 0, or 256 if there is none.
slide_carry_end(r, k) ==
    IF \A j \in k..(Len(r) - 1) : r[j + 1] # 0 THEN Len(r)
    ELSE CHOOSE j \in k..(Len(r) - 1) :
             /\ r[j + 1] = 0
             /\ \A h \in k..(j - 1) : r[h + 1] # 0

\* for k in k..256: the first zero digit becomes 1 and the loop ends; the
\* digits before it become 0.  A carry that finds no zero digit is dropped.
slide_carry(r, k) ==
    LET carry(end) ==
            [j \in 1..Len(r) |->
                IF j - 1 >= k /\ j - 1 < end THEN 0
                ELSE IF j - 1 = end THEN 1
                ELSE r[j]]
        done(r1) == Strict(r1, r1)
    IN  done(carry(slide_carry_end(r, k)))

RECURSIVE slide_window(_, _, _)
\* for b in b..min(7, 256 - i), 256 being the length of r
slide_window(r, i, b) ==
    IF b >= Min(7, Len(r) - i) THEN r
    ELSE IF r[i + b + 1] = 0 THEN slide_window(r, i, b + 1)
    ELSE IF r[i + 1] + r[i + b + 1] * 2^b <= 15
    THEN LET r1 == [r EXCEPT ![i + 1] = r[i + 1] + r[i + b + 1] * 2^b,
                             ![i + b + 1] = 0]
         IN  Strict(r1, slide_window(r1, i, b + 1))
    ELSE IF r[i + 1] - r[i + b + 1] * 2^b >= -15
    THEN LET r1 == slide_carry(
                       [r EXCEPT ![i + 1] = r[i + 1] - r[i + b + 1] * 2^b],
                       i + b)
         IN  Strict(r1, slide_window(r1, i, b + 1))
    ELSE r

RECURSIVE slide_loop(_, _, _)
\* for i in i..n, as the first half of the range and then the second.
slide_loop(r, i, n) ==
    IF i >= n THEN r
    ELSE IF n = i + 1
    THEN IF r[i + 1] # 0 THEN slide_window(r, i, 1) ELSE r
    ELSE LET half(r1) == Strict(r1, slide_loop(r1, i + (n - i) \div 2, n))
         IN  half(slide_loop(r, i, i + (n - i) \div 2))

\* slide with the top bit of the scalar left out.
slide_without_top_bit(a) ==
    slide_loop([i \in 1..ScalarBits |->
                   IF i = ScalarBits THEN 0
                   ELSE (a[((i - 1) \div 8) + 1] \div 2^((i - 1) % 8)) % 2],
               0, ScalarBits)

\* The length of r, 256 in the source: the bits of the first 32 bytes of a.
\* A scalar shorter than the source's 32 bytes is one of the model's width
\* and has ScalarBits digits.
slide_len(a) == IF Len(a) < SecretKeySize THEN ScalarBits ELSE 8 * SecretKeySize

\* slide(a): one signed digit per bit of the first bytes of a.
slide(a) ==
    slide_loop([i \in 1..slide_len(a) |->
                   (a[((i - 1) \div 8) + 1] \div 2^((i - 1) % 8)) % 2],
               0, slide_len(a))

RECURSIVE BuildAI(_, _, _)
\* for i in 1..8: AI[i] = (A2 + AI[i - 1]).to_P3().to_Cached(); AI[i] here
\* is the source's AI[i - 1].
BuildAI(AI, A2, i) ==
    Strict(AI,
    IF i > 8 THEN AI
    ELSE BuildAI(
             Append(AI, P3_to_Cached(P1P1_to_P3(P3_add_Cached(A2, AI[i - 1])))),
             A2, i + 1))

RECURSIVE dsm_skip(_, _, _)
\* The first loop: the highest index with a nonzero digit, or -1 if every
\* digit of both scalars is zero (the source returns r there).
dsm_skip(aslide, bslide, i) ==
    IF aslide[i + 1] # 0 \/ bslide[i + 1] # 0 THEN i
    ELSE IF i = 0 THEN -1
    ELSE dsm_skip(aslide, bslide, i - 1)

\* One round of the second loop at index i: r doubled, then +/- the
\* multiple of A and +/- the multiple of B the digits name, as a P2.
dsm_round(r, aslide, bslide, AI, i) ==
    LET ai == aslide[i + 1]
        bi == bslide[i + 1]
        add_A(t) ==
            IF ai > 0
            THEN P3_add_Cached(P1P1_to_P3(t), AI[(ai \div 2) + 1])
            ELSE IF ai < 0
            THEN P3_sub_Cached(P1P1_to_P3(t), AI[((-ai) \div 2) + 1])
            ELSE t
        add_B(t) ==
            IF bi > 0
            THEN P3_add_Precomp(P1P1_to_P3(t), BI[(bi \div 2) + 1])
            ELSE IF bi < 0
            THEN P3_sub_Precomp(P1P1_to_P3(t), BI[((-bi) \div 2) + 1])
            ELSE t
    IN  P1P1_to_P2(add_B(add_A(P2_double(r))))

RECURSIVE dsm_loop(_, _, _, _, _, _)
\* The rounds of the second loop from index i down to index lo, r = 2 r +
\* aslide[i] A + bslide[i] B in each: the upper half of the indexes, then
\* the lower half.
dsm_loop(r, aslide, bslide, AI, i, lo) ==
    IF i = lo THEN dsm_round(r, aslide, bslide, AI, i)
    ELSE LET rest(r1) ==
                 Strict(r1, dsm_loop(r1, aslide, bslide, AI,
                                     lo + (i - lo + 1) \div 2 - 1, lo))
         IN  rest(dsm_loop(r, aslide, bslide, AI, i,
                           lo + (i - lo + 1) \div 2))

\* double_scalar_multiply_vartime(a, b, A) = [a]A + [b]B as a P2.
double_scalar_multiply_vartime(a, b, A) ==
    LET from(aslide, bslide, AI) ==
            LET i == dsm_skip(aslide, bslide, ScalarBits - 1)
            IN  Strict(<<aslide, bslide, AI>>,
                    IF i < 0 THEN P2_zero
                    ELSE dsm_loop(P2_zero, aslide, bslide, AI, i, 0))
    IN  Strict(<<a, b, A>>,
            from(slide(a), slide(b),
                 BuildAI(<<P3_to_Cached(A)>>, P1P1_to_P3(P3_double(A)), 2)))

(***************************************************************************)
(* double_scalar_multiply_vartime statement by statement.  s is the state  *)
(* of a call: the digits, r, the usize i, the loop the call is in          *)
(* ("first", "second", or "returned") and the number of calls of           *)
(* r.double() so far.                                                      *)
(***************************************************************************)
RECURSIVE dsm_results(_, _, _, _, _)
\* What the rounds of the second loop from index i down to 0 leave in r:
\* dsm_results(..)[k + 1] is r after the round at index k.
dsm_results(r, aslide, bslide, AI, i) ==
    IF i < 0 THEN <<>>
    ELSE LET rest(r1) ==
                 Strict(r1, dsm_results(r1, aslide, bslide, AI, i - 1)
                                \o <<r1>>)
         IN  rest(dsm_round(r, aslide, bslide, AI, i))

\* The state after let mut i: usize = 255.  The values of r are computed
\* here, for the rounds the digits give, and a round reads its own.
dsm_begin(a, b, A) ==
    LET begun(aslide, bslide, AI) ==
            [aslide |-> aslide, bslide |-> bslide,
             results |-> dsm_results(P2_zero, aslide, bslide, AI,
                                     dsm_skip(aslide, bslide, ScalarBits - 1)),
             r |-> P2_zero, i |-> ScalarBits - 1, at |-> "first",
             doublings |-> 0]
    IN  begun(slide(a), slide(b),
              BuildAI(<<P3_to_Cached(A)>>, P1P1_to_P3(P3_double(A)), 2))

\* One round of the first loop: break, return r, or i -= 1.
dsm_first_step(s) ==
    IF s.aslide[s.i + 1] # 0 \/ s.bslide[s.i + 1] # 0
    THEN [s EXCEPT !.at = "second"]
    ELSE IF s.i = 0 THEN [s EXCEPT !.at = "returned"]
    ELSE [s EXCEPT !.i = @ - 1]

\* The second loop with return r left out of it: at i = 0 the round is
\* run again.
dsm_second_step_without_return(s) ==
    [s EXCEPT !.r = s.results[s.i + 1], !.doublings = @ + 1,
              !.i = IF @ = 0 THEN 0 ELSE @ - 1]

\* One round of the second loop: r = t.to_P2(), then return r or i -= 1.
dsm_second_step(s) ==
    IF s.i = 0
    THEN [s EXCEPT !.r = s.results[s.i + 1], !.doublings = @ + 1,
                   !.at = "returned"]
    ELSE [s EXCEPT !.r = s.results[s.i + 1], !.doublings = @ + 1,
                   !.i = @ - 1]

(***************************************************************************)
(* slide once more, keeping beside r what its statements compute on the    *)
(* way: lo and hi, the least and the greatest value of an i8 expression    *)
(* (r[i + b] << b, the sum r[i] + (r[i + b] << b), the difference), and    *)
(* index, the greatest index at which r is read or written.                *)
(***************************************************************************)
\* s with the i8 values from least to greatest and the index at noted.
slide_note(s, least, greatest, at) ==
    [s EXCEPT !.lo = IF least < @ THEN least ELSE @,
              !.hi = IF greatest > @ THEN greatest ELSE @,
              !.index = IF at > @ THEN at ELSE @]

RECURSIVE slide_window_checked_to_eight(_, _, _)
\* slide_window_checked with the window one digit wider: b up to 7.
slide_window_checked_to_eight(s, i, b) ==
    IF b >= Min(8, Len(s.r) - i) THEN s
    ELSE IF s.r[i + b + 1] = 0
    THEN slide_window_checked_to_eight(slide_note(s, 0, 0, i + b), i, b + 1)
    ELSE LET shifted == s.r[i + b + 1] * 2^b
             sum == s.r[i + 1] + shifted
             diff == s.r[i + 1] - shifted
         IN  IF sum <= 15
             THEN LET s1 == slide_note(
                                [s EXCEPT !.r = [s.r EXCEPT ![i + 1] = sum,
                                                            ![i + b + 1] = 0]],
                                Min(shifted, sum), 0 - Min(0 - shifted, 0 - sum),
                                i + b)
                  IN  Strict(s1, slide_window_checked_to_eight(s1, i, b + 1))
             ELSE IF diff >= -15
             THEN LET s1 == slide_note(
                                [s EXCEPT !.r =
                                    slide_carry([s.r EXCEPT ![i + 1] = diff],
                                                i + b)],
                                Min(shifted, diff), 0 - Min(0 - shifted, 0 - sum),
                                Min(slide_carry_end(s.r, i + b), Len(s.r) - 1))
                  IN  Strict(s1, slide_window_checked_to_eight(s1, i, b + 1))
             ELSE slide_note(s, Min(shifted, diff),
                             0 - Min(0 - shifted, 0 - sum), i + b)

RECURSIVE slide_window_checked(_, _, _)
\* for b in b..min(7, 256 - i)
slide_window_checked(s, i, b) ==
    IF b >= Min(7, Len(s.r) - i) THEN s
    ELSE IF s.r[i + b + 1] = 0
    THEN slide_window_checked(slide_note(s, 0, 0, i + b), i, b + 1)
    ELSE LET shifted == s.r[i + b + 1] * 2^b
             sum == s.r[i + 1] + shifted
             diff == s.r[i + 1] - shifted
         IN  IF sum <= 15
             THEN LET s1 == slide_note(
                                [s EXCEPT !.r = [s.r EXCEPT ![i + 1] = sum,
                                                            ![i + b + 1] = 0]],
                                Min(shifted, sum), 0 - Min(0 - shifted, 0 - sum),
                                i + b)
                  IN  Strict(s1, slide_window_checked(s1, i, b + 1))
             ELSE IF diff >= -15
             THEN LET s1 == slide_note(
                                [s EXCEPT !.r =
                                    slide_carry([s.r EXCEPT ![i + 1] = diff],
                                                i + b)],
                                Min(shifted, diff), 0 - Min(0 - shifted, 0 - sum),
                                Min(slide_carry_end(s.r, i + b), Len(s.r) - 1))
                  IN  Strict(s1, slide_window_checked(s1, i, b + 1))
             ELSE slide_note(s, Min(shifted, diff),
                             0 - Min(0 - shifted, 0 - sum), i + b)

RECURSIVE slide_loop_checked(_, _, _)
\* for i in i..n, as the first half of the range and then the second.
slide_loop_checked(s, i, n) ==
    IF i >= n THEN s
    ELSE IF n = i + 1
    THEN IF s.r[i + 1] # 0
         THEN slide_window_checked(slide_note(s, 0, 0, i), i, 1)
         ELSE slide_note(s, 0, 0, i)
    ELSE LET half(s1) ==
                 Strict(s1, slide_loop_checked(s1, i + (n - i) \div 2, n))
         IN  half(slide_loop_checked(s, i, i + (n - i) \div 2))

\* slide(a) with lo, hi and index: the first loop writes every r[i].
slide_checked(a) ==
    slide_loop_checked(
        [r |-> [i \in 1..slide_len(a) |->
                   (a[((i - 1) \div 8) + 1] \div 2^((i - 1) % 8)) % 2],
         lo |-> 0, hi |-> 1, index |-> slide_len(a) - 1],
        0, slide_len(a))

(***************************************************************************)
(* scalar_ops.rs, which the crate uses and the source tree does not hold:  *)
(* reduce and multiply_add, as the specification describes them.           *)
(***************************************************************************)
RECURSIVE FromLEMod(_, _)
\* The integer a little-endian byte string stands for, modulo m.
FromLEMod(bytes, m) ==
    IF bytes = <<>> THEN 0
    ELSE (Head(bytes) + 256 * FromLEMod(Tail(bytes), m)) % m

\* reduce(s): the low ScalarBytes bytes of the buffer become the whole
\* buffer's integer modulo l; the bytes above them are kept.
reduce(s) ==
    ToLE(FromLEMod(s, GroupOrder), ScalarBytes)
        \o SubSeq(s, ScalarBytes + 1, Len(s))

\* multiply_add(a, b, c) = (a b + c) mod l; of c the low ScalarBytes bytes
\* carry weight.
multiply_add(a, b, c) ==
    ToLE((FromLEMod(a, GroupOrder) * FromLEMod(b, GroupOrder)
            + FromLEMod(SubSeq(c, 1, ScalarBytes), GroupOrder)) % GroupOrder,
         ScalarBytes)

(***************************************************************************)
(* SHA-512 is the sha2 crate's.  It is modelled as a family of             *)
(* deterministic functions from byte strings to HashBytes bytes, one per   *)
(* value of seed.                                                          *)
(***************************************************************************)
RECURSIVE HashFold(_, _, _, _)
HashFold(acc, mult, modulus, bytes) ==
    IF bytes = <<>> THEN acc
    ELSE LET a1 == (acc * mult + Head(bytes) + 1) % modulus
         IN  Strict(a1, HashFold(a1, mult, modulus, Tail(bytes)))

Sha512(sd, input) ==
    ToLE(HashFold(sd + 7, 251, 65521, input), ScalarBytes)
        \o ToLE(HashFold(3 * sd + 11, 239, 65519, input), ScalarBytes)

(***************************************************************************)
(* public.rs, secret.rs, keypair.rs                                        *)
(***************************************************************************)
\* The clamp with bit 7 of the top byte left as the hash gave it.
Clamp_keeping_top_bit(output) ==
    [output EXCEPT ![1] = BitAnd(output[1], 248),
                   ![ScalarBytes] = BitOr(output[ScalarBytes], 64)]

\* output[0] &= 248; output[31] &= 63; output[31] |= 64
Clamp(output) ==
    [output EXCEPT ![1] = BitAnd(output[1], 248),
                   ![ScalarBytes] =
                       BitOr(BitAnd(output[ScalarBytes], 63), 64)]

\* The group order's bytes as public.rs writes them: most significant
\* byte first.
ScalarL == <<15, 233>>

\* check_lt_l of public.rs on a scalar of ScalarBytes bytes.
check_lt_l_scalar(s) == check_lt_l_with(s, ScalarL)

\* PublicKey::generate(pr): the public key and the locals alive when it
\* returns.
PublicKey_generate(sd, pr) ==
    LET h == Clamp(Sha512(sd, pr))
        point == scalar_multiply(SubSeq(h, 1, ScalarBytes))
    IN  [public |-> P3_encode(point), locals |-> [h |-> h]]

\* Keypair::generate(): secret is what SecretKey::generate_key drew.
Keypair_generate(sd, secret) ==
    LET h == Clamp(Sha512(sd, secret))
        point == scalar_multiply(SubSeq(h, 1, ScalarBytes))
    IN  [secret |-> secret, public |-> P3_encode(point),
         locals |-> [h |-> h]]

Keypair_generate_public_key(sd, secret) ==
    LET g == PublicKey_generate(sd, secret)
    IN  [secret |-> secret, public |-> g.public, locals |-> g.locals]

\* sign with the key derived from the secret hashed into k in place of
\* the argument public.
SecretKey_sign_derived_key(sd, self, public, message) ==
    LET h == Clamp(Sha512(sd, self))
        r == reduce(Sha512(sd, SubSeq(h, ScalarBytes + 1, HashBytes)
                                   \o message))
        compose(R, A) ==
            LET k == reduce(Sha512(sd, R \o A \o message))
            IN  [signature |->
                     R \o multiply_add(SubSeq(k, 1, ScalarBytes),
                                       SubSeq(h, 1, ScalarBytes), r),
                 locals |-> [h |-> h, r |-> r, k |-> k]]
    IN  compose(P3_encode(scalar_multiply(SubSeq(r, 1, ScalarBytes))),
                P3_encode(scalar_multiply(SubSeq(h, 1, ScalarBytes))))

\* SecretKey::sign(self, public, message): the signature and the locals
\* alive when it returns.
SecretKey_sign(sd, self, public, message) ==
    LET compose(h, r, R) ==
            LET k == reduce(Sha512(sd, R \o public \o message))
            IN  Strict(R,
                    [signature |->
                         R \o multiply_add(SubSeq(k, 1, ScalarBytes),
                                           SubSeq(h, 1, ScalarBytes), r),
                     locals |-> [h |-> h, r |-> r, k |-> k]])
        nonce(h, r) ==
            Strict(r,
                compose(h, r,
                        P3_encode(scalar_multiply(SubSeq(r, 1, ScalarBytes)))))
        hashed(h) ==
            Strict(h,
                nonce(h, reduce(Sha512(sd, SubSeq(h, ScalarBytes + 1,
                                                  HashBytes)
                                           \o message))))
    IN  hashed(Clamp(Sha512(sd, self)))

Keypair_sign(sd, self, message) ==
    SecretKey_sign(sd, self.secret, self.public, message)

\* The comparison verify ends with: the xor of the encoding with the first
\* bytes of the signature, folded with or.
FoldXor(x, y) ==
    LET RECURSIVE go(_, _)
        go(acc, i) ==
            IF i > Min(Len(x), Len(y)) THEN acc
            ELSE go(BitOr(acc, BitXor(x[i], y[i])), i + 1)
    IN  go(0, 1)

\* verify with R decoded and compared as a point, y taken modulo p, in
\* place of the comparison of the bytes.
PublicKey_verify_decoding_R(sd, self, message, signature) ==
    LET s == SubSeq(signature, ScalarBytes + 1, 2 * ScalarBytes)
        k == reduce(Sha512(sd, SubSeq(signature, 1, ScalarBytes)
                                   \o self \o message))
        R == AffineDecode(SubSeq(signature, 1, ScalarBytes))
        check(A) ==
            IF ~A.some \/ ~R.some THEN Err("InvalidSignature")
            ELSE IF AffineDecode(
                        P2_encode(double_scalar_multiply_vartime(
                                      k, s, A.value))) = R
            THEN Ok(<<>>)
            ELSE Err("SignatureMismatch")
    IN  IF check_lt_l_scalar(s) THEN Err("InvalidSignature")
        ELSE check(P3_decode(self))

\* PublicKey::verify(self, message, sig)
PublicKey_verify(sd, self, message, signature) ==
    LET s == SubSeq(signature, ScalarBytes + 1, 2 * ScalarBytes)
        compare(eq) ==
            Strict(eq,
                IF FoldXor(eq, signature) = 0 THEN Ok(<<>>)
                ELSE Err("SignatureMismatch"))
        check(A, k) ==
            Strict(<<A, k>>,
                IF ~A.some THEN Err("InvalidSignature")
                ELSE compare(P2_encode(double_scalar_multiply_vartime(
                                           k, s, A.value))))
    IN  IF check_lt_l_scalar(s) THEN Err("InvalidSignature")
        ELSE check(P3_decode(self),
                   reduce(Sha512(sd, SubSeq(signature, 1, ScalarBytes)
                                         \o self \o message)))

Keypair_verify(sd, self, message, signature) ==
    PublicKey_verify(sd, self.public, message, signature)

(***************************************************************************)
(* Spec: keys are generated, a message is signed, and a signature is       *)
(* verified: the one just made, or one an adversary derived from it.       *)
(***************************************************************************)
MaxSeed == 1

MaxSecret == 1

MaxMessageLen == 1

MaxMultiple == 14

Seeds == 0..MaxSeed

SecretKeys == {<<(77 * i + 9) % 256, (45 * i + 130) % 256>> : i \in 0..MaxSecret}

Messages == {[i \in 1..n |-> 96 + i] : n \in 0..MaxMessageLen}

\* A public key that is not the signer's: the encoding of [5]B.
ForeignPublicKey == AffineEncode(AffineMul(5, BasePoint))

Bits == 0..(ScalarBits - 1)

\* The byte string with bit i flipped; bit 0 is the low bit of byte 0.
FlipBit(bytes, i) ==
    [bytes EXCEPT ![(i \div 8) + 1] = BitXor(@, 2^(i % 8))]

RHalf(signature) == SubSeq(signature, 1, ScalarBytes)

SHalf(signature) == SubSeq(signature, ScalarBytes + 1, 2 * ScalarBytes)

FlipBitS(signature, i) == RHalf(signature) \o FlipBit(SHalf(signature), i)

\* S + j l still fits the S half.
FitsS(signature, j) ==
    FromLE(SHalf(signature)) + j * GroupOrder < 2^ScalarBits

\* The signature with j times the group order added to its S half.
AddOrder(signature, j) ==
    RHalf(signature)
        \o ToLE(FromLE(SHalf(signature)) + j * GroupOrder, ScalarBytes)

Init ==
    /\ seed \in Seeds
    /\ keypair = [secret |-> <<>>, public |-> <<>>]
    /\ signing = [called |-> FALSE]
    /\ verifying = [called |-> FALSE]
    /\ IdleRange
    /\ IdleBytes
    /\ IdleCall

Generated == keypair.secret # <<>>

\* Keypair::generate()
KeypairGenerate ==
    /\ ~Generated
    /\ \E secret \in SecretKeys :
           LET ret == Keypair_generate(seed, secret)
           IN  keypair' = [secret |-> ret.secret, public |-> ret.public,
                           by |-> "generate", locals |-> ret.locals]
    /\ UNCHANGED <<seed, signing, verifying, rangeVars, byteVars, callVars>>

\* Keypair::generate_public_key(secret)
KeypairGeneratePublicKey ==
    /\ ~Generated
    /\ \E secret \in SecretKeys :
           LET ret == Keypair_generate_public_key(seed, secret)
           IN  keypair' = [secret |-> ret.secret, public |-> ret.public,
                           by |-> "generate_public_key",
                           locals |-> ret.locals]
    /\ UNCHANGED <<seed, signing, verifying, rangeVars, byteVars, callVars>>

\* Keypair::sign(message)
KeypairSign ==
    /\ Generated
    /\ ~signing.called
    /\ \E message \in Messages :
           LET ret == Keypair_sign(seed, keypair, message)
           IN  signing' = [called |-> TRUE, by |-> "Keypair::sign",
                           message |-> message,
                           public |-> keypair.public,
                           signature |-> ret.signature,
                           locals |-> ret.locals]
    /\ UNCHANGED <<seed, keypair, verifying, rangeVars, byteVars, callVars>>

\* SecretKey::sign(public, message) with a public key of the caller's
\* choosing.
SecretKeySign ==
    /\ Generated
    /\ ~signing.called
    /\ \E message \in Messages :
           LET ret == SecretKey_sign(seed, keypair.secret, ForeignPublicKey,
                                     message)
           IN  signing' = [called |-> TRUE, by |-> "SecretKey::sign",
                           message |-> message,
                           public |-> ForeignPublicKey,
                           signature |-> ret.signature,
                           locals |-> ret.locals]
    /\ UNCHANGED <<seed, keypair, verifying, rangeVars, byteVars, callVars>>

\* PublicKey::verify(self, message, signature), with what the call is
\* about: the signature the input was derived from and the bit flipped.
Verify(kind, self, message, signature, base, bit) ==
    /\ signing.called
    /\ ~verifying.called
    /\ verifying' = [called |-> TRUE, kind |-> kind, public |-> self,
                     message |-> message, signature |-> signature,
                     base |-> base, bit |-> bit,
                     result |-> PublicKey_verify(seed, self, message,
                                                 signature).result]
    /\ UNCHANGED <<seed, keypair, signing, rangeVars, byteVars, callVars>>

\* Keypair::verify(message, signature) on the signature just made.
VerifySigned ==
    Verify("signed", keypair.public, signing.message, signing.signature,
           signing.signature, -1)

\* The signature with a multiple of the group order added to S.
VerifyAddOrder ==
    \E j \in 1..MaxMultiple :
        /\ signing.called
        /\ FitsS(signing.signature, j)
        /\ Verify("add_order", signing.public, signing.message,
                  AddOrder(signing.signature, j), signing.signature, -1)

\* One bit of S flipped, in the signature or in the signature with the
\* group order added to S.
VerifyFlipS ==
    \E j \in 0..1, i \in Bits :
        LET base == AddOrder(signing.signature, j)
        IN  Verify("flip_S", signing.public, signing.message,
                   FlipBitS(base, i), base, i)

\* One bit of R flipped.
VerifyFlipR ==
    \E i \in Bits :
        Verify("flip_R", signing.public, signing.message,
               FlipBit(RHalf(signing.signature), i)
                   \o SHalf(signing.signature),
               signing.signature, i)

\* One bit of the public key flipped.
VerifyFlipA ==
    \E i \in Bits :
        Verify("flip_A", FlipBit(signing.public, i), signing.message,
               signing.signature, signing.signature, i)

\* Another message.
VerifyOtherMessage ==
    \E message \in Messages :
        /\ signing.called
        /\ message # signing.message
        /\ Verify("other_message", signing.public, message, signing.signature,
               signing.signature, -1)

Next ==
    \/ KeypairGenerate
    \/ KeypairGeneratePublicKey
    \/ KeypairSign
    \/ SecretKeySign
    \/ VerifySigned
    \/ VerifyAddOrder
    \/ VerifyFlipS
    \/ VerifyFlipR
    \/ VerifyFlipA
    \/ VerifyOtherMessage

Spec == Init /\ [][Next]_vars

(***************************************************************************)
(* What verification is measured against: the points and scalars of        *)
(* RFC 8032 computed with the affine arithmetic above.                     *)
(***************************************************************************)
\* k = SHA-512(R || A || M) mod l
ChallengeOf(sd, R, A, message) ==
    FromLEMod(Sha512(sd, R \o A \o message), GroupOrder)

\* enc([S]B - [k]A) for the decoded point A.
CheckPoint(S, k, A) ==
    AffineEncode(AffineAdd(AffineMul(S, BasePoint),
                           AffineNeg(AffineMul(k, A))))

\* The equation of verification holds for (pk, M, sig): pk decodes and
\* enc([S]B - [k]A) is the R half.
EquationHolds(sd, pk, message, signature) ==
    LET holds(A) ==
            /\ A.some
            /\ CheckPoint(FromLE(SHalf(signature)),
                          ChallengeOf(sd, RHalf(signature), pk, message),
                          A.value) = RHalf(signature)
    IN  holds(AffineDecode(pk))

VerifiedSigned ==
    /\ verifying.called
    /\ verifying.kind = "signed"
    /\ signing.by = "Keypair::sign"

\* C1: a signature made by Keypair::sign verifies under the keypair's
\* public key for the message signed: verify returns Ok(()).
C1_SignThenVerifyIsOk ==
    VerifiedSigned => verifying.result = "Ok"

C1_Witness ==
    /\ VerifiedSigned
    /\ keypair.by = "generate_public_key"
    /\ signing.message # <<>>
    /\ verifying.result = "Ok"

\* C3: verify returns Ok(()) exactly when the S half passes the range
\* check of verify, the public key decodes to a point A, and the encoding of
\* [S]B - [k]A equals the R half, k being SHA-512(R || pk || M) mod l.
C3_VerifyOkIffEquationHolds ==
    verifying.called =>
        (verifying.result = "Ok"
            <=> /\ ~check_lt_l_scalar(SHalf(verifying.signature))
                /\ EquationHolds(seed, verifying.public, verifying.message,
                                 verifying.signature))

\* C4: verify returns Ok(()), InvalidSignature or SignatureMismatch and
\* nothing else: InvalidSignature exactly when S >= l or the public key does
\* not decode, SignatureMismatch exactly when S < l, the key decodes and the
\* encoding of [S]B - [k]A differs from the R half.
C4_VerifyErrorTaxonomy ==
    verifying.called =>
        LET canonical == FromLE(SHalf(verifying.signature)) < GroupOrder
            decodes == AffineDecode(verifying.public).some
        IN  /\ verifying.result
                   \in {"Ok", "InvalidSignature", "SignatureMismatch"}
            /\ verifying.result = "InvalidSignature"
                   <=> (~canonical \/ ~decodes)
            /\ verifying.result = "SignatureMismatch"
                   <=> /\ canonical
                       /\ decodes
                       /\ ~EquationHolds(seed, verifying.public,
                                         verifying.message,
                                         verifying.signature)

\* The signature RFC 8032 defines for sk, the public key bytes A and M.
ExpectedSignature(sd, sk, A, message) ==
    LET compose(a, r, R) ==
            R \o ToLE((r + ChallengeOf(sd, R, A, message) * a) % GroupOrder,
                      ScalarBytes)
        nonce(a, r) == compose(a, r, AffineEncode(AffineMul(r, BasePoint)))
        expand(h) ==
            nonce(FromLE(SubSeq(h, 1, ScalarBytes)),
                  FromLEMod(Sha512(sd, SubSeq(h, ScalarBytes + 1, HashBytes)
                                           \o message),
                            GroupOrder))
    IN  expand(Clamp(Sha512(sd, sk)))

\* C7: whatever public key sign is given, the signature is enc([r]B)
\* followed by S = (r + k a) mod l little-endian, with a and the prefix from
\* SHA-512(sk), r = SHA-512(prefix || M) mod l and k = SHA-512(enc(R) || A ||
\* M) mod l; so the S half is below l.
C7_SignatureIsRThenS ==
    signing.called =>
        /\ Len(signing.signature) = 2 * ScalarBytes
        /\ signing.signature =
               ExpectedSignature(seed, keypair.secret, signing.public,
                                 signing.message)
        /\ FromLE(SHalf(signing.signature)) < GroupOrder

C7_Witness ==
    /\ signing.called
    /\ signing.by = "SecretKey::sign"
    /\ signing.public # keypair.public
    /\ signing.message # <<>>
    /\ FromLE(SHalf(signing.signature)) > 0

\* verify accepts the signature the flipped one was made from.
FlippedVerifying ==
    /\ verifying.called
    /\ verifying.kind = "flip_S"
    /\ PublicKey_verify(seed, verifying.public, verifying.message,
                        verifying.base).result = "Ok"

\* C8: if verify accepts (R, S) for A and M, it returns an error for
\* (R, S') with S' = S with one bit flipped, whichever bit it is.
C8_FlippedSIsRejected ==
    FlippedVerifying => verifying.result # "Ok"

C8_Witness ==
    /\ FlippedVerifying
    /\ verifying.bit = ScalarBits - 1
    /\ verifying.result = "SignatureMismatch"

\* C10: when sign and generate return, the buffers h (the SHA-512
\* expansion of the secret key) and r (the nonce) hold zeros only.
C10_IntermediatesAreWiped ==
    /\ Generated => keypair.locals.h = Zeros(HashBytes)
    /\ signing.called =>
           /\ signing.locals.h = Zeros(HashBytes)
           /\ signing.locals.r = Zeros(HashBytes)

(***************************************************************************)
(* field_element.rs on limbs.  reduce, encode and decode are carry chains  *)
(* over five limbs, and what they guarantee depends on how far a limb may  *)
(* exceed its width, which the integer of the sections above does not      *)
(* show.  Here a FieldElement is the sequence of its five limbs.  A limb   *)
(* is LimbBits = 11 bits wide (51 in the source), the prime is             *)
(* 2^55 - 19 (2^255 - 19), an encoding is 7 bytes (32) and its top bit is  *)
(* bit 55 (255).  11 and 51 leave the same remainder modulo 8, so the      *)
(* limbs meet the byte boundaries with the same shifts as in the source:   *)
(* << 3, << 6, << 1, << 4 in encode and >> 3, >> 6, >> 1, >> 12 in decode. *)
(* No quantity exceeds a limb and its carry, so nothing is cut by TLC's    *)
(* 32-bit integers.                                                        *)
(***************************************************************************)
LimbBits == 11

\* The bits a limb of an input may occupy: the property of encode is
\* stated for limbs below 2^54, three bits above the limb's width.
LimbInputBits == LimbBits + 3

\* Reduce51Mask
Reduce51Mask == 2^LimbBits - 1

\* The bytes of an encoded field element: 32 in the source.
EncodedBytes == (5 * LimbBits + 1) \div 8

\* x & Reduce51Mask
Mask51(x) == x % (Reduce51Mask + 1)

\* x >> 51
Shr51(x) == x \div (Reduce51Mask + 1)

\* FieldElement::reduce(limbs): one pass of carries from limb 0 to limb 4,
\* and 19 times the last carry added to limb 0, which is not carried on.
FieldElement_reduce_limbs(limbs) ==
    LET l1 == limbs[2] + Shr51(limbs[1])
        l2 == limbs[3] + Shr51(l1)
        l3 == limbs[4] + Shr51(l2)
        l4 == limbs[5] + Shr51(l3)
    IN  <<Mask51(limbs[1]) + Shr51(l4) * 19,
          Mask51(l1), Mask51(l2), Mask51(l3), Mask51(l4)>>

\* The bytes of encode from the limbs h: t[0] .. t[6].
FieldElement_pack(h) ==
    <<AsU8(h[1]),
      BitOr(AsU8(h[1] \div 2^8), AsU8(h[2] * 2^3)),
      BitOr(AsU8(h[2] \div 2^5), AsU8(h[3] * 2^6)),
      AsU8(h[3] \div 2^2),
      BitOr(AsU8(h[3] \div 2^10), AsU8(h[4] * 2^1)),
      BitOr(AsU8(h[4] \div 2^7), AsU8(h[5] * 2^4)),
      AsU8(h[5] \div 2^4)>>

\* encode with q taken as 0: the reduced limbs are carried and packed.
FieldElement_encode_limbs_without_q(self) ==
    LET h == FieldElement_reduce_limbs(self)
        h1 == h[2] + Shr51(h[1])
        h2 == h[3] + Shr51(h1)
        h3 == h[4] + Shr51(h2)
        h4 == h[5] + Shr51(h3)
    IN  FieldElement_pack(<<Mask51(h[1]), Mask51(h1), Mask51(h2),
                            Mask51(h3), Mask51(h4)>>)

\* FieldElement::encode(self): reduce, then q = 1 if h + 19 reaches 2^255,
\* 19 q is added to limb 0, the carries are taken through the limbs and the
\* carry out of limb 4 is dropped.
FieldElement_encode_limbs(self) ==
    LET h == FieldElement_reduce_limbs(self)
        q0 == Shr51(h[1] + 19)
        q1 == Shr51(h[2] + q0)
        q2 == Shr51(h[3] + q1)
        q3 == Shr51(h[4] + q2)
        q == Shr51(h[5] + q3)
        h0 == h[1] + 19 * q
        h1 == h[2] + Shr51(h0)
        h2 == h[3] + Shr51(h1)
        h3 == h[4] + Shr51(h2)
        h4 == h[5] + Shr51(h3)
    IN  FieldElement_pack(<<Mask51(h0), Mask51(h1), Mask51(h2),
                            Mask51(h3), Mask51(h4)>>)

\* load_8(&h[from..]): the bytes from index `from` as a little-endian
\* integer.  Three bytes hold every bit decode keeps after its shift and
\* mask (eight in the source).
load_8(h, from) ==
    h[from + 1] + 2^8 * h[from + 2]
        + (IF from + 3 <= Len(h) THEN 2^16 * h[from + 3] ELSE 0)

\* decode with limb 4 taken from byte 4 shifted by 4 instead of 12.
FieldElement_decode_limbs_wrong_shift(h) ==
    <<Mask51(load_8(h, 0)),
      Mask51(load_8(h, 1) \div 2^3),
      Mask51(load_8(h, 2) \div 2^6),
      Mask51(load_8(h, 4) \div 2^1),
      Mask51(load_8(h, 4) \div 2^4)>>

\* FieldElement::decode(h): five limbs of LimbBits bits; the top bit of the
\* last byte is not read.
FieldElement_decode_limbs(h) ==
    <<Mask51(load_8(h, 0)),
      Mask51(load_8(h, 1) \div 2^3),
      Mask51(load_8(h, 2) \div 2^6),
      Mask51(load_8(h, 4) \div 2^1),
      Mask51(load_8(h, 4) \div 2^12)>>

\* ct_eq(self, other): the encodings are compared.
FieldElement_ct_eq_limbs(self, other) ==
    IF FieldElement_encode_limbs(self) = FieldElement_encode_limbs(other)
    THEN 1 ELSE 0

(***************************************************************************)
(* The value of a FieldElement as a number of six digits in base           *)
(* 2^LimbBits, least significant first, and its remainder modulo p by      *)
(* subtracting p while it can be subtracted.                               *)
(***************************************************************************)
\* value(f) = f[0] + f[1] 2^51 + ... + f[4] 2^204 in digits.
LimbValue(f) ==
    LET d1 == f[2] + Shr51(f[1])
        d2 == f[3] + Shr51(d1)
        d3 == f[4] + Shr51(d2)
        d4 == f[5] + Shr51(d3)
    IN  <<Mask51(f[1]), Mask51(d1), Mask51(d2), Mask51(d3), Mask51(d4),
          Shr51(d4)>>

\* p = 2^255 - 19 in digits.
PDigits ==
    <<Reduce51Mask - 18, Reduce51Mask, Reduce51Mask, Reduce51Mask,
      Reduce51Mask, 0>>

RECURSIVE DigitsLess(_, _, _)
\* a < b, for digits 1..i equal above i.
DigitsLess(a, b, i) ==
    IF i = 0 THEN FALSE
    ELSE IF a[i] # b[i] THEN a[i] < b[i]
    ELSE DigitsLess(a, b, i - 1)

RECURSIVE DigitsMinus(_, _, _, _)
\* a - b for a >= b: digit i onwards, with the borrow from below.
DigitsMinus(a, b, i, borrow) ==
    IF i > Len(a) THEN <<>>
    ELSE LET diff == a[i] - b[i] - borrow
         IN  <<diff % (Reduce51Mask + 1)>>
                 \o DigitsMinus(a, b, i + 1, IF diff < 0 THEN 1 ELSE 0)

RECURSIVE DigitsModP(_)
DigitsModP(a) ==
    IF DigitsLess(a, PDigits, Len(a)) THEN a
    ELSE DigitsModP(DigitsMinus(a, PDigits, 1, 0))

\* Bit j of the number the digits stand for.
DigitsBit(a, j) ==
    IF j \div LimbBits >= Len(a) THEN 0
    ELSE (a[(j \div LimbBits) + 1] \div 2^(j % LimbBits)) % 2

\* The number as EncodedBytes little-endian bytes.
DigitsToLE(a) ==
    [k \in 1..EncodedBytes |->
        DigitsBit(a, 8 * (k - 1)) + 2 * DigitsBit(a, 8 * (k - 1) + 1)
            + 4 * DigitsBit(a, 8 * (k - 1) + 2)
            + 8 * DigitsBit(a, 8 * (k - 1) + 3)
            + 16 * DigitsBit(a, 8 * (k - 1) + 4)
            + 32 * DigitsBit(a, 8 * (k - 1) + 5)
            + 64 * DigitsBit(a, 8 * (k - 1) + 6)
            + 128 * DigitsBit(a, 8 * (k - 1) + 7)]

(***************************************************************************)
(* The exponent of invert.  pow22501 and invert are a fixed sequence of    *)
(* squarings and multiplications of powers of self: on exponents a         *)
(* squaring doubles and a multiplication adds.  The sequence is run here   *)
(* at the source's width, all of it, an exponent being ExponentDigits      *)
(* digits in base 2^8, least significant first.                            *)
(***************************************************************************)
ExponentDigits == 256 \div 8

RECURSIVE ExponentAdd(_, _, _, _)
\* a + b: digit i onwards, with the carry from below.
ExponentAdd(a, b, i, carry) ==
    IF i > ExponentDigits THEN <<>>
    ELSE LET sum == a[i] + b[i] + carry
         IN  <<sum % 2^8>> \o ExponentAdd(a, b, i + 1, sum \div 2^8)

\* The exponent of self.
ExponentOne == [i \in 1..ExponentDigits |-> IF i = 1 THEN 1 ELSE 0]

\* square_times(n) on the exponent: doubled n times, a shift by n bits.
ExponentSquareTimes(e, n) ==
    [i \in 1..ExponentDigits |->
        (IF i - (n \div 8) >= 1
         THEN (e[i - (n \div 8)] * 2^(n % 8)) % 2^8 ELSE 0)
        + (IF i - (n \div 8) - 1 >= 1
           THEN (e[i - (n \div 8) - 1] * 2^(n % 8)) \div 2^8 ELSE 0)]

\* pow22501, statement by statement: the variable assigned, the operation
\* and its operands.
pow22501_steps ==
    << <<"t0", "square", "self">>,
       <<"t1", "square", "t0">>,
       <<"t1", "square", "t1">>,
       <<"t1", "mul", "self", "t1">>,
       <<"t0", "mul", "t0", "t1">>,
       <<"t2", "square", "t0">>,
       <<"t1", "mul", "t1", "t2">>,
       <<"t2", "square", "t1">>,
       <<"t2", "square_times", "t2", 4>>,
       <<"t1", "mul", "t2", "t1">>,
       <<"t2", "square", "t1">>,
       <<"t2", "square_times", "t2", 9>>,
       <<"t2", "mul", "t2", "t1">>,
       <<"t3", "square", "t2">>,
       <<"t3", "square_times", "t3", 19>>,
       <<"t2", "mul", "t2", "t3">>,
       <<"t2", "square", "t2">>,
       <<"t2", "square_times", "t2", 9>>,
       <<"t1", "mul", "t2", "t1">>,
       <<"t2", "square", "t1">>,
       <<"t2", "square_times", "t2", 49>>,
       <<"t2", "mul", "t2", "t1">>,
       <<"t3", "square", "t2">>,
       <<"t3", "square_times", "t3", 99>>,
       <<"t2", "mul", "t3", "t2">>,
       <<"t2", "square", "t2">>,
       <<"t2", "square_times", "t2", 49>>,
       <<"b", "mul", "t2", "t1">>,
       <<"a", "square_times", "t0", 0>> >>

\* invert after pow22501: (a, b) is what pow22501 returned, b is squared
\* for _i in 1..6, and the result is a.mul(b).
invert_steps ==
    pow22501_steps
        \o << <<"b", "square", "b">>,
              <<"b", "square", "b">>,
              <<"b", "square", "b">>,
              <<"b", "square", "b">>,
              <<"b", "square", "b">>,
              <<"ret", "mul", "a", "b">> >>

\* The exponent a statement assigns, from the exponents of the variables.
ExponentOfStep(regs, step) ==
    IF step[2] = "square" THEN ExponentSquareTimes(regs[step[3]], 1)
    ELSE IF step[2] = "square_times"
    THEN ExponentSquareTimes(regs[step[3]], step[4])
    ELSE ExponentAdd(regs[step[3]], regs[step[4]], 1, 0)

RECURSIVE ExponentRun(_, _, _)
\* The exponents of the variables after the statements from i onwards.
ExponentRun(regs, steps, i) ==
    IF i > Len(steps) THEN regs
    ELSE LET assign(e) ==
                 ExponentRun([regs EXCEPT ![steps[i][1]] = e], steps, i + 1)
         IN  Strict(regs, assign(ExponentOfStep(regs, steps[i])))

\* The exponent of self that invert returns.
invert_exponent ==
    ExponentRun(
        [r \in {"self", "t0", "t1", "t2", "t3", "a", "b", "ret"} |->
            ExponentOne],
        invert_steps, 1)["ret"]

\* 2^255 - 21 = p - 2 in the digits of an exponent.
PMinusTwoExponent ==
    [i \in 1..ExponentDigits |->
        IF i = 1 THEN 2^8 - 21
        ELSE IF i = ExponentDigits THEN 2^7 - 1 ELSE 2^8 - 1]

(***************************************************************************)
(* SpecField: encode, decode and invert are applied to field elements.     *)
(***************************************************************************)
MaxLimbDelta == 1

\* The values limb 0 takes: those within MaxLimbDelta of 0, of 19, of
\* 2^51 - 19, of 2^51 and of the largest input.
LowLimbValues ==
    {v \in 0..(2^LimbInputBits - 1) :
        \E c \in {0, 19, 2^LimbBits - 19, 2^LimbBits, 2^LimbInputBits - 1} :
            /\ v >= c - MaxLimbDelta
            /\ v <= c + MaxLimbDelta}

\* The values limbs 1 to 4 take.
HighLimbValues == {0, 2^LimbBits - 1, 2^LimbBits, 2^LimbInputBits - 1}

FieldElements ==
    {<<l0, l1, l2, l3, l4>> :
        l0 \in LowLimbValues, l1 \in HighLimbValues, l2 \in HighLimbValues,
        l3 \in HighLimbValues, l4 \in HighLimbValues}

MaxInvertDelta == 150

\* The integers invert is applied to: those within MaxInvertDelta of 0, of
\* p and of 2 p.
InvertInputs ==
    {a \in 0..(TwoP - 1) :
        \E c \in {0, P, TwoP} :
            /\ a >= c - MaxInvertDelta
            /\ a <= c + MaxInvertDelta}

InitField ==
    /\ IdleCall
    /\ IdleRange
    /\ IdleBytes
    /\ IdleProto

\* f.encode(), and FieldElement::decode of it
FieldEncode ==
    \E f \in FieldElements :
        LET decoded(enc) ==
                [op |-> "FieldElement::encode", arg |-> f, ret |-> enc,
                 decoded |-> FieldElement_decode_limbs(enc)]
        IN  /\ IdleCall
            /\ call' = decoded(FieldElement_encode_limbs(f))
            /\ UNCHANGED <<rangeVars, byteVars, protoVars>>

\* a.invert(), for a in the integer form of the sections above, which need
\* not be below p.
FieldInvert ==
    \E a \in InvertInputs :
        /\ IdleCall
        /\ call' = [op |-> "FieldElement::invert", arg |-> a,
                    ret |-> FieldElement_invert(a),
                    exponent |-> invert_exponent]
        /\ UNCHANGED <<rangeVars, byteVars, protoVars>>

(***************************************************************************)
(* add, sub, square_times and P2::double on limbs.  A u64 is WordBits =    *)
(* LimbBits + 13 bits wide (64 = 51 + 13); the u128 products are far from  *)
(* their width in the source and are plain integers here.                  *)
(***************************************************************************)
WordBits == LimbBits + 13

\* TwoP0 = 0x0fffffffffffda = 2^52 - 38
TwoP0 == 2^(LimbBits + 1) - 38

\* TwoP1234 = 0x0ffffffffffffe = 2^52 - 2
TwoP1234 == 2^(LimbBits + 1) - 2

\* self + g: limb by limb, no carry.
FieldElement_add_limbs(self, g) == [i \in 1..5 |-> self[i] + g[i]]

\* The five differences (self.0[i] + TwoP) - g.0[i] of sub as integers,
\* before they are stored in a u64.
FieldElement_sub_terms(self, g) ==
    [i \in 1..5 |-> (self[i] + (IF i = 1 THEN TwoP0 ELSE TwoP1234)) - g[i]]

\* self - g in a build without overflow checks: a negative difference
\* wraps modulo 2^64.  (With the checks the subtraction panics.)
FieldElement_sub_limbs(self, g) ==
    FieldElement_reduce_limbs(
        [i \in 1..5 |-> FieldElement_sub_terms(self, g)[i] % 2^WordBits])

\* One round of the loop of square_times.
FieldElement_square_round(z) ==
    LET z3_19 == 19 * z[4]
        z4_19 == 19 * z[5]
        c0 == z[1] * z[1] + 2 * (z[2] * z4_19 + z[3] * z3_19)
        c1 == z[4] * z3_19 + 2 * (z[1] * z[2] + z[3] * z4_19) + Shr51(c0)
        c2 == z[2] * z[2] + 2 * (z[1] * z[3] + z[5] * z3_19) + Shr51(c1)
        c3 == z[5] * z4_19 + 2 * (z[1] * z[4] + z[2] * z[3]) + Shr51(c2)
        c4 == z[3] * z[3] + 2 * (z[1] * z[5] + z[2] * z[4]) + Shr51(c3)
        r0 == Mask51(c0) + Shr51(c4) * 19
        r1 == Mask51(c1) + Shr51(r0)
    IN  <<Mask51(r0), Mask51(r1), Mask51(c2) + Shr51(r1), Mask51(c3),
          Mask51(c4)>>

RECURSIVE FieldElement_square_times_limbs(_, _)
\* self.square_times(pow)
FieldElement_square_times_limbs(self, pow) ==
    IF pow = 0 THEN self
    ELSE FieldElement_square_times_limbs(FieldElement_square_round(self),
                                         pow - 1)

\* self.square()
FieldElement_square_limbs(self) == FieldElement_square_times_limbs(self, 1)

\* self.double_square()
FieldElement_double_square_limbs(self) ==
    [i \in 1..5 |-> FieldElement_square_times_limbs(self, 1)[i] * 2]

\* P2::double on limbs, self = [X, Y, Z]: the P1P1 returned, and beside it
\* the differences of its three subtractions, in the order of the source.
P2_double_limbs(self) ==
    LET xx == FieldElement_square_limbs(self.X)
        yy == FieldElement_square_limbs(self.Y)
        a == FieldElement_double_square_limbs(self.Z)
        YpX == FieldElement_add_limbs(self.X, self.Y)
        b == FieldElement_square_limbs(YpX)
        y == FieldElement_add_limbs(yy, xx)
        z == FieldElement_sub_limbs(yy, xx)
    IN  [X |-> FieldElement_sub_limbs(b, y), Y |-> y, Z |-> z,
         T |-> FieldElement_sub_limbs(a, z),
         terms |-> [z |-> FieldElement_sub_terms(yy, xx),
                    x |-> FieldElement_sub_terms(b, y),
                    t |-> FieldElement_sub_terms(a, z)]]

\* The values limb 0 of a reduced coordinate takes: the ends, and the
\* four square roots of -7 modulo 2^51 (of which the squares end in
\* 2^51 - 7).
ReducedLowLimbs ==
    {0, 1, 2^LimbBits - 1}
    \cup {v \in 0..(2^LimbBits - 1) : (v * v + 7) % 2^LimbBits = 0}

\* The reduced coordinates of the points P2::double is applied to.
ReducedElements ==
    {<<l0, l1, 0, 0, l4>> :
        l0 \in ReducedLowLimbs, l1 \in {0, 2^LimbBits - 1},
        l4 \in {0, 2^LimbBits - 1}}

\* P2 { X, Y, Z }.double() in a build with the overflow checks ("debug")
\* or without them ("release").
P2Double ==
    \E X \in ReducedElements, Y \in ReducedElements,
       Z \in {<<1, 0, 0, 0, 0>>, <<2^LimbBits - 1, 0, 0, 0, 2^LimbBits - 1>>},
       build \in {"debug", "release"} :
        LET doubled(r) ==
                [op |-> "P2::double", arg |-> [X |-> X, Y |-> Y, Z |-> Z],
                 build |-> build, terms |-> r.terms,
                 ret |-> IF /\ build = "debug"
                            /\ \E k \in {"z", "x", "t"}, i \in 1..5 :
                                   r.terms[k][i] < 0
                         THEN [panic |-> TRUE]
                         ELSE [X |-> r.X, Y |-> r.Y, Z |-> r.Z, T |-> r.T]]
        IN  /\ IdleCall
            /\ call' = doubled(P2_double_limbs([X |-> X, Y |-> Y, Z |-> Z]))
            /\ UNCHANGED <<rangeVars, byteVars, protoVars>>

NextField ==
    \/ FieldEncode
    \/ FieldInvert
    \/ P2Double

SpecField == InitField /\ [][NextField]_vars

(***************************************************************************)
(* SpecGroup and SpecField: one function of group_element.rs or            *)
(* field_element.rs is applied to an input drawn from a bounded set, and   *)
(* call records the function, its input and what it returned.  One        *)
(* function is applied in a behaviour.                                     *)
(***************************************************************************)

(***************************************************************************)
(* Precomp::select as the sequence of operations it performs.  An event is *)
(* what an observer of the control flow and of the addresses sees: the     *)
(* function entered, and for a table read the two indexes of the row.  The *)
(* values of absolute, of the choices and of t are data and are not part   *)
(* of an event; equal runs its loop for i in 0..8 whatever its arguments,  *)
(* and conditional_assign is subtle's masked assignment of five limbs.     *)
(***************************************************************************)
\* The row a conditional_assign of select reads: &PRECOMP_BASE[pos][index].
select_row_read(pos, index) == <<"PRECOMP_BASE", pos, index>>

\* select with the row fetched by the digit: PRECOMP_BASE[pos][absolute - 1]
\* is read directly when absolute is not 0, and negation is a branch.
select_trace_by_index(pos, b) ==
    LET negative == AsU8(b) \div 128
        absolute == AsU8(b - 2 * (IF negative = 1 THEN b ELSE 0))
    IN  << <<"Precomp::zero">> >>
        \o (IF absolute = 0 THEN <<>>
            ELSE <<select_row_read(pos, absolute - 1)>>)
        \o (IF negative = 1 THEN << <<"FieldElement::negate">> >> ELSE <<>>)

RECURSIVE select_rows_trace(_, _, _, _)
\* The events of the eight conditional assignments, row j onwards: the
\* index of the row is the literal j - 1 of the source line.
select_rows_trace(trace, pos, absolute, j) ==
    IF j > 8 THEN trace
    ELSE select_rows_trace(
             trace \o << <<"equal", 8>>,
                         select_row_read(pos, j - 1),
                         <<"Precomp::conditional_assign">> >>,
             pos, absolute, j + 1)

\* The events of select(pos, b), in program order.
select_trace(pos, b) ==
    LET negative == AsU8(b) \div 128
        absolute == AsU8(b - 2 * (IF negative = 1 THEN b ELSE 0))
    IN  select_rows_trace(<< <<"Precomp::zero">> >>, pos, absolute, 1)
        \o << <<"FieldElement::negate">>,
              <<"Precomp::conditional_assign">> >>

\* The choices select passes to its nine conditional assignments.
select_choices(pos, b) ==
    LET negative == AsU8(b) \div 128
        absolute == AsU8(b - 2 * (IF negative = 1 THEN b ELSE 0))
    IN  [j \in 1..8 |-> equal(absolute, j)] \o <<negative>>

\* The digits scalar_multiply passes to select: radix16 digits and the
\* carry into the last one.
SelectDigits == (0 - 8)..8

TablePositions == 0..(ScalarBytes - 1)

(***************************************************************************)
(* The points and the encodings the functions are applied to.              *)
(***************************************************************************)
MaxPointMultiple == 12

MaxTorsion == 7

MaxScale == 2

MaxEncodedY == 300

\* A point of order 8: the curve's points are the sums of a multiple of
\* the base point and a multiple of this one.
TorsionPoint == <<17285, 15332>>

\* The affine points [n]B + [t]T of the bounds.
CurvePoints ==
    {AffineAdd(AffineMul(n, BasePoint), AffineMul(t, TorsionPoint)) :
         n \in 0..MaxPointMultiple, t \in 0..MaxTorsion}

\* The affine point p in P3 form with Z = z.
ToP3(p, z) ==
    [X |-> MulP(p[1], z), Y |-> MulP(p[2], z), Z |-> z,
     T |-> MulP(MulP(p[1], p[2]), z)]

\* The affine point a P2 or P3 value stands for: (X / Z, Y / Z).
ToAffine(h) == <<MulP(h.X, InvP(h.Z)), MulP(h.Y, InvP(h.Z))>>

\* The encodings decode is applied to: the low and the high values of y,
\* the values p..2^255 - 1 that are not canonical among them, and the y of
\* the points above, each with either value of the top bit.
Encodings ==
    {ToLE(y + ReduceMask * sign, ScalarBytes) :
         y \in (0..MaxEncodedY)
                 \cup ((ReduceMask - 1 - MaxEncodedY)..(ReduceMask - 1))
                 \cup {p[2] : p \in CurvePoints},
         sign \in {0, 1}}

MaxScalarDelta == 1

MaxScalarSamples == 12

\* The scalars the multiplications are applied to, as integers: those
\* within MaxScalarDelta of 0, of the group order, of 2^255 and of
\* 2^256 - 1, and MaxScalarSamples + 1 values spread over the range.
ScalarValues ==
    {v \in 0..(2^ScalarBits - 1) :
        \E c \in {0, GroupOrder, 2^FieldBits, 2^ScalarBits - 1} :
            /\ v >= c - MaxScalarDelta
            /\ v <= c + MaxScalarDelta}
    \cup {(i * GroupOrder + i) % 2^ScalarBits : i \in 0..MaxScalarSamples}

Scalars == {ToLE(v, ScalarBytes) : v \in ScalarValues}

MaxMultiplySamples == 300

\* The scalars of the fixed-base multiplications: those above and
\* MaxMultiplySamples + 1 values spread over the range.
MultiplyScalars ==
    Scalars
    \cup {ToLE((i * GroupOrder + i) % 2^ScalarBits, ScalarBytes) :
              i \in 0..MaxMultiplySamples}

\* The points A of double_scalar_multiply_vartime, in P3 form: in the
\* group of the base point and outside it.
DsmPoints ==
    {ToP3(AffineAdd(AffineMul(n, BasePoint), AffineMul(t, TorsionPoint)), 1) :
         n \in {1, MaxPointMultiple}, t \in {0, 1}}

\* The bytes of the scalar radix16 receives, at the source's width, which
\* the digits do not exceed TLC's integers at.
RadixBytes == 32

MaxByteStep == 1

\* The values of a[31]: around the nibble boundaries 8, 120, 128 and 136
\* and the two ends.
TopBytes == {0, 7, 8, 119, 120, 127, 128, 135, 136, 255}

\* The scalars of radix16: a[i] = fill + i step for i < 31, and each a[31]
\* above.
RadixScalars ==
    {[i \in 1..RadixBytes |->
         IF i = RadixBytes THEN top ELSE (fill + (i - 1) * step) % 256] :
         fill \in Byte, step \in 0..MaxByteStep, top \in TopBytes}

InitGroup ==
    /\ IdleCall
    /\ IdleRange
    /\ IdleBytes
    /\ IdleProto

\* Precomp::select(pos, b)
Select ==
    \E pos \in TablePositions, b \in SelectDigits :
        /\ IdleCall
        /\ call' = [op |-> "select", arg |-> <<pos, b>>,
                    ret |-> select(pos, b),
                    trace |-> select_trace(pos, b),
                    choices |-> select_choices(pos, b)]
        /\ UNCHANGED <<rangeVars, byteVars, protoVars>>

\* P3::decode(P.encode()) for a point P in P3 form.
P3EncodeDecode ==
    \E p \in CurvePoints, z \in 1..MaxScale :
        LET decoded(enc) ==
                [op |-> "P3::encode, P3::decode", arg |-> ToP3(p, z),
                 enc |-> enc, ret |-> P3_decode(enc)]
        IN  /\ IdleCall
            /\ call' = decoded(P3_encode(ToP3(p, z)))
            /\ UNCHANGED <<rangeVars, byteVars, protoVars>>

\* P3::decode(enc), and the encoding of the point if there is one.
P3Decode ==
    \E enc \in Encodings :
        LET encoded(ret) ==
                [op |-> "P3::decode", arg |-> enc, ret |-> ret,
                 enc |-> IF ret.some THEN P3_encode(ret.value) ELSE <<>>]
        IN  /\ IdleCall
            /\ call' = encoded(P3_decode(enc))
            /\ UNCHANGED <<rangeVars, byteVars, protoVars>>

\* P2::double_scalar_multiply_vartime(a, b, A).encode()
DoubleScalarMultiply ==
    \E a \in Scalars, b \in Scalars, A \in DsmPoints :
        /\ IdleCall
        /\ call' = [op |-> "P2::double_scalar_multiply_vartime",
                    arg |-> <<a, b, A>>,
                    ret |-> P2_encode(
                                double_scalar_multiply_vartime(a, b, A))]
        /\ UNCHANGED <<rangeVars, byteVars, protoVars>>

\* Precomp::scalar_multiply(a).encode() and
\* Precomp::scalar_multiply_without_precomputation(a).encode()
ScalarMultiply ==
    \E a \in MultiplyScalars :
        /\ IdleCall
        /\ call' = [op |-> "Precomp::scalar_multiply", arg |-> a,
                    ret |-> P3_encode(scalar_multiply(a)),
                    reference |->
                        P3_encode(scalar_multiply_without_precomputation(a))]
        /\ UNCHANGED <<rangeVars, byteVars, protoVars>>

\* Precomp::radix16(a)
Radix16 ==
    \E a \in RadixScalars :
        /\ IdleCall
        /\ call' = [op |-> "Precomp::radix16", arg |-> a, ret |-> radix16(a)]
        /\ UNCHANGED <<rangeVars, byteVars, protoVars>>

NextGroup ==
    \/ Select
    \/ P3EncodeDecode
    \/ P3Decode
    \/ DoubleScalarMultiply
    \/ ScalarMultiply
    \/ Radix16

SpecGroup == InitGroup /\ [][NextGroup]_vars

(***************************************************************************)
(* P2::slide at the source's width of 32 bytes and 256 digits.             *)
(***************************************************************************)
\* The scalars of slide: a[i] = fill + i step for i < 31 with the two
\* nibbles of fill equal, and each a[31] of TopBytes.
SlideScalars ==
    {[i \in 1..RadixBytes |->
         IF i = RadixBytes THEN top ELSE (17 * fill + (i - 1) * step) % 256] :
         fill \in 0..15, step \in 0..MaxByteStep, top \in TopBytes}

\* P2::slide(a), with what slide_checked keeps beside it.
Slide ==
    \E a \in SlideScalars :
        LET slid(r, checked) ==
                [op |-> "P2::slide", arg |-> a, ret |-> r,
                 checked |-> checked]
        IN  /\ IdleCall
            /\ call' = slid(slide(a), slide_checked(a))
            /\ UNCHANGED <<rangeVars, byteVars, protoVars>>

NextSlide == Slide

SpecSlide == InitGroup /\ [][NextSlide]_vars

(***************************************************************************)
(* SpecPoint: a P3 value is taken from P3::zero() or P3::decode and the    *)
(* group operations are applied to it one after another, each followed by  *)
(* to_P3, as scalar_multiply and double_scalar_multiply_vartime do.        *)
(***************************************************************************)
MaxPointSteps == 2

\* The encodings the points are decoded from: the base point, a point
\* outside its group, and the identity with p added to y.
PointEncodings ==
    {AffineEncode(BasePoint),
     AffineEncode(AffineAdd(AffineMul(MaxPointMultiple, BasePoint),
                            TorsionPoint)),
     ToLE(P + 1, ScalarBytes)}

\* The outputs of P3::decode.
DecodedPoints ==
    {P3_decode(enc).value : enc \in {e \in PointEncodings : P3_decode(e).some}}

\* The Precomp operands: a row of each table and an output of select.
PrecompOperands ==
    {PRECOMP_BASE[ScalarBytes][8], BI[8], select(0, -1)}

\* P3::zero() or P3::decode(enc)
PointStart ==
    \E start \in {P3_zero} \cup DecodedPoints :
        /\ IdleCall
        /\ call' = [op |-> IF start = P3_zero THEN "P3::zero" ELSE "P3::decode",
                    ret |-> start, steps |-> 0]
        /\ UNCHANGED <<rangeVars, byteVars, protoVars>>

\* The step op with the result r, after the value of call.
PointStep(op, r) ==
    /\ ~IdleCall
    /\ call.steps < MaxPointSteps
    /\ call' = [op |-> op, ret |-> r, steps |-> call.steps + 1]
    /\ UNCHANGED <<rangeVars, byteVars, protoVars>>

\* p.to_P2().double().to_P3()
PointDouble ==
    PointStep("P2::double", P1P1_to_P3(P3_double(call.ret)))

\* (p + q.to_Cached()).to_P3()
PointAddCached ==
    \E q \in DecodedPoints :
        PointStep("P3 + Cached",
                  P1P1_to_P3(P3_add_Cached(call.ret, P3_to_Cached(q))))

\* (p - q.to_Cached()).to_P3()
PointSubCached ==
    \E q \in DecodedPoints :
        PointStep("P3 - Cached",
                  P1P1_to_P3(P3_sub_Cached(call.ret, P3_to_Cached(q))))

\* (p + q).to_P3() for a Precomp q
PointAddPrecomp ==
    \E q \in PrecompOperands :
        PointStep("P3 + Precomp", P1P1_to_P3(P3_add_Precomp(call.ret, q)))

\* (p - q).to_P3() for a Precomp q
PointSubPrecomp ==
    \E q \in PrecompOperands :
        PointStep("P3 - Precomp", P1P1_to_P3(P3_sub_Precomp(call.ret, q)))

NextPoint ==
    \/ PointStart
    \/ PointDouble
    \/ PointAddCached
    \/ PointSubCached
    \/ PointAddPrecomp
    \/ PointSubPrecomp

SpecPoint == InitGroup /\ [][NextPoint]_vars

(***************************************************************************)
(* SpecLoop: double_scalar_multiply_vartime runs one round of a loop at a  *)
(* time.  The loops are sequential code, so a round that can be taken is   *)
(* taken: weak fairness of the two steps.                                  *)
(***************************************************************************)
\* The scalars of the call: no digit, one digit at the bottom, at the
\* top, and digits throughout.
LoopScalars ==
    {ToLE(v, ScalarBytes) :
         v \in {0, 1, 2^(ScalarBits - 1), GroupOrder, 2^FieldBits - 1,
                2^ScalarBits - 1}}

\* double_scalar_multiply_vartime(a, b, A) is entered.
DsmBegin ==
    \E a \in LoopScalars, b \in LoopScalars, A \in DsmPoints :
        /\ IdleCall
        /\ call' = [op |-> "P2::double_scalar_multiply_vartime, by rounds",
                    arg |-> <<a, b, A>>, run |-> dsm_begin(a, b, A)]
        /\ UNCHANGED <<rangeVars, byteVars, protoVars>>

\* A round of the first loop.
DsmFirstStep ==
    /\ ~IdleCall
    /\ call.run.at = "first"
    /\ call' = [call EXCEPT !.run = dsm_first_step(call.run)]
    /\ UNCHANGED <<rangeVars, byteVars, protoVars>>

\* A round of the second loop.
DsmSecondStep ==
    /\ ~IdleCall
    /\ call.run.at = "second"
    /\ call' = [call EXCEPT !.run = dsm_second_step(call.run)]
    /\ UNCHANGED <<rangeVars, byteVars, protoVars>>

NextLoop ==
    \/ DsmBegin
    \/ DsmFirstStep
    \/ DsmSecondStep

SpecLoop ==
    /\ InitGroup
    /\ [][NextLoop]_vars
    /\ WF_vars(DsmFirstStep)
    /\ WF_vars(DsmSecondStep)

(***************************************************************************)
(* SpecForge: the inputs the functions do not check.  A key pair is        *)
(* generated and signs, and verify is given signatures and public keys     *)
(* whose point encodings are not canonical.                                *)
(***************************************************************************)
\* The encodings that are not canonical: y is p or more, or x = 0 (y is 1
\* or p - 1) with the top bit set.
NonCanonicalEncodings ==
    {ToLE(y + ReduceMask * sign, ScalarBytes) :
         y \in P..(ReduceMask - 1), sign \in {0, 1}}
    \cup {ToLE(1 + ReduceMask, ScalarBytes), ToLE(P - 1 + ReduceMask, ScalarBytes)}

\* S = k a mod l for the challenge k of (R, A, message) and the scalar a
\* of the key pair: with it [S]B = [k]A, so R is the identity.
ForgedS(R, message) ==
    multiply_add(
        SubSeq(reduce(Sha512(seed, R \o keypair.public \o message)),
               1, ScalarBytes),
        SubSeq(Clamp(Sha512(seed, keypair.secret)), 1, ScalarBytes),
        [i \in 1..ScalarBytes |-> 0])

\* verify(message, R || S) for an R that is not canonical, with the S of
\* the signature made or the S that makes R the identity.
VerifyNonCanonicalR ==
    \E R \in NonCanonicalEncodings, forged \in BOOLEAN :
        /\ signing.called
        /\ keypair.by = "generate"
        /\ signing.by = "Keypair::sign"
        /\ Verify(IF forged THEN "forged_R" ELSE "noncanonical_R",
                  keypair.public, signing.message,
                  R \o (IF forged THEN ForgedS(R, signing.message)
                        ELSE SHalf(signing.signature)),
                  signing.signature, -1)

\* The public key Keypair::generate derives from the secret key bytes.
DerivedPublicKey(secret) == Keypair_generate(seed, secret).public

\* The public keys put beside a secret key: the derived key A, A plus the
\* point of order 2, A plus a point of order 8, the key of another secret,
\* and bytes that are no point.
PublicHalves(secret) ==
    LET beside(A) ==
            Strict(A,
                {AffineEncode(A),
                 AffineEncode(AffineAdd(A, AffineMul(4, TorsionPoint))),
                 AffineEncode(AffineAdd(A, TorsionPoint)),
                 ForeignPublicKey,
                 ToLE(CHOOSE y \in 2..MaxEncodedY :
                          ~AffineDecode(ToLE(y, ScalarBytes)).some,
                      ScalarBytes)})
        derived(public) == Strict(public, beside(AffineDecode(public).value))
    IN  derived(DerivedPublicKey(secret))

\* The bytes of a key of the model in a container of n bytes: the bytes
\* above the model's width are zero.
Contained(key, n) == [i \in 1..n |-> IF i <= Len(key) THEN key[i] ELSE 0]

\* Keypair::from_bytes(secret || public) for any two halves.
KeypairFromBytes ==
    /\ ~Generated
    /\ \E secret \in SecretKeys :
           \E public \in PublicHalves(secret) :
               LET ret == Keypair_from_bytes(
                              Contained(secret, SecretKeySize)
                                  \o Contained(public, PublicKeySize))
               IN  /\ ret.result = "Ok"
                   /\ keypair' =
                          [secret |-> SubSeq(ret.value.secret, 1, ScalarBytes),
                           public |-> SubSeq(ret.value.public, 1, ScalarBytes),
                           by |-> "from_bytes"]
    /\ UNCHANGED <<seed, signing, verifying, rangeVars, byteVars, callVars>>

\* SecretKey::sign(public, message) for each public key argument.
SecretKeySignWith ==
    /\ Generated
    /\ ~signing.called
    /\ keypair.by = "generate"
    /\ \E message \in Messages :
           \E public \in PublicHalves(keypair.secret) :
               LET ret == SecretKey_sign(seed, keypair.secret, public, message)
               IN  signing' = [called |-> TRUE, by |-> "SecretKey::sign",
                               message |-> message, public |-> public,
                               signature |-> ret.signature,
                               locals |-> ret.locals]
    /\ UNCHANGED <<seed, keypair, verifying, rangeVars, byteVars, callVars>>

\* The encoding with y below p that has the same y mod p and the same top
\* bit as enc.
CanonicalY(enc) ==
    ToLE((EncodedY(enc) % P) + ReduceMask * EncodedSign(enc), ScalarBytes)

MaxTorsionMultiple == 7

\* Signatures offered with the public key A: the one just made, and for the
\* S of it the halves R = enc([S]B - [c]Q) for the point Q that A decodes
\* to, which verify when [k]Q = [c]Q.
SignaturesFor(A) ==
    LET S == SHalf(signing.signature)
        made(Q) ==
            IF ~Q.some THEN {}
            ELSE {CheckPoint(FromLE(S), c, Q.value) \o S :
                      c \in 0..MaxTorsionMultiple}
    IN  {signing.signature} \cup made(AffineDecode(A))

\* PublicKey::from_bytes(A) of an encoding that is not canonical, then
\* verify(message, signature) with the key it returned; decoded is what the
\* P3::decode of verify returns, canonical what it returns for the
\* canonical encoding.
VerifyNonCanonicalA ==
    \E A \in NonCanonicalEncodings :
        /\ signing.called
        /\ ~verifying.called
        /\ keypair.by = "generate"
        /\ signing.by = "Keypair::sign"
        /\ \E signature \in SignaturesFor(A) :
               LET key == PublicKey_from_bytes(Contained(A, PublicKeySize))
                   self == SubSeq(key.value, 1, ScalarBytes)
               IN  /\ key.result = "Ok"
                   /\ verifying' =
                          [called |-> TRUE, kind |-> "noncanonical_A",
                           public |-> self, message |-> signing.message,
                           signature |-> signature,
                           base |-> signing.signature, bit |-> -1,
                           key |-> key,
                           decoded |-> P3_decode(self),
                           canonical |-> P3_decode(CanonicalY(self)),
                           result |-> PublicKey_verify(
                                          seed, self, signing.message,
                                          signature).result]
        /\ UNCHANGED <<seed, keypair, signing, rangeVars, byteVars, callVars>>

NextForge ==
    \/ KeypairGenerate
    \/ KeypairFromBytes
    \/ KeypairSign
    \/ SecretKeySignWith
    \/ VerifySigned
    \/ VerifyNonCanonicalR
    \/ VerifyNonCanonicalA

SpecForge == Init /\ [][NextForge]_vars

(***************************************************************************)
(* SpecKeys: key generation and signing over many secret keys, with the    *)
(* scalar each call passes to Precomp::scalar_multiply and the arguments   *)
(* scalar_multiply passes to Precomp::select.                              *)
(***************************************************************************)
MaxKeySecret == 47

KeySecrets ==
    {<<(77 * i + 9) % 256, (45 * i + 130) % 256>> : i \in 0..MaxKeySecret}

\* The calls select(i / 2, e[i]) of scalar_multiply(a), in order: i over
\* the odd indexes, then over the even ones.
scalar_multiply_selects(a) ==
    LET e == radix16(a)
        calls(start) ==
            [n \in 1..Len(a) |->
                LET i == start + 2 * (n - 1)
                IN  [pos |-> i \div 2, b |-> e[i + 1]]]
    IN  calls(1) \o calls(0)

\* What a call hands to scalar_multiply, and what that hands to select.
Passed(a) == [scalar |-> a, selects |-> scalar_multiply_selects(a)]

\* Keypair::generate()
KeysGenerate ==
    /\ ~Generated
    /\ \E secret \in KeySecrets :
           LET ret == Keypair_generate(seed, secret)
           IN  keypair' = [secret |-> ret.secret, public |-> ret.public,
                           by |-> "generate", locals |-> ret.locals,
                           passed |->
                               Passed(SubSeq(ret.locals.h, 1, ScalarBytes))]
    /\ UNCHANGED <<seed, signing, verifying, rangeVars, byteVars, callVars>>

\* Keypair::generate_public_key(secret), which calls PublicKey::generate
KeysGeneratePublicKey ==
    /\ ~Generated
    /\ \E secret \in KeySecrets :
           LET ret == Keypair_generate_public_key(seed, secret)
           IN  keypair' = [secret |-> ret.secret, public |-> ret.public,
                           by |-> "generate_public_key",
                           locals |-> ret.locals,
                           passed |->
                               Passed(SubSeq(ret.locals.h, 1, ScalarBytes))]
    /\ UNCHANGED <<seed, signing, verifying, rangeVars, byteVars, callVars>>

\* Keypair::sign(message), which calls SecretKey::sign
KeysSign ==
    /\ Generated
    /\ ~signing.called
    /\ \E message \in Messages :
           LET ret == Keypair_sign(seed, keypair, message)
           IN  signing' = [called |-> TRUE, by |-> "Keypair::sign",
                           message |-> message,
                           public |-> keypair.public,
                           signature |-> ret.signature,
                           locals |-> ret.locals,
                           passed |->
                               Passed(SubSeq(ret.locals.r, 1, ScalarBytes))]
    /\ UNCHANGED <<seed, keypair, verifying, rangeVars, byteVars, callVars>>

NextKeys == KeysGenerate \/ KeysGeneratePublicKey \/ KeysSign

SpecKeys == Init /\ [][NextKeys]_vars

(***************************************************************************)
(* Properties of SpecGroup and SpecField.                                  *)
(***************************************************************************)
\* The rows of PRECOMP_BASE a trace reads, in the order it reads them.
RowsRead(trace) ==
    SelectSeq(trace, LAMBDA ev : ev[1] = "PRECOMP_BASE")

C12_DecodeOfEncodeIsThePoint ==
    call.op = "P3::encode, P3::decode" =>
        /\ call.ret.some
        /\ ToAffine(call.ret.value) = ToAffine(call.arg)

\* What decode returns for the encoding of P is a point of the curve, and
\* it is P when x is 0 and the negation of P otherwise.
DecodeOfEncodeIsTheNegation ==
    call.op = "P3::encode, P3::decode" =>
        /\ call.ret.some
        /\ OnCurve(ToAffine(call.arg))
        /\ ToAffine(call.ret.value) = AffineNeg(ToAffine(call.arg))

\* C13: for a FieldElement f whose limbs are each below 2^54, f.encode()
\* is the little-endian encoding of value(f) mod p: as an integer it is
\* less than p, and the top bit of the last byte is zero.
C13_EncodeIsCanonical ==
    call.op = "FieldElement::encode" =>
        /\ call.ret = DigitsToLE(DigitsModP(LimbValue(call.arg)))
        /\ LessLE(call.ret, DigitsToLE(PDigits), EncodedBytes)
        /\ call.ret[EncodedBytes] < 128

\* encode has run on a value of p or more whose reduced limb 0 is not
\* below 2^51: q is 1 and a carry leaves limb 0.
C13_Witness ==
    /\ call.op = "FieldElement::encode"
    /\ ~DigitsLess(LimbValue(call.arg), PDigits, 6)
    /\ FieldElement_reduce_limbs(call.arg)[1] > Reduce51Mask
    /\ call.ret = DigitsToLE(DigitsModP(LimbValue(call.arg)))

\* C14: for every field element a, a.invert() is a^(p - 2) mod p, the
\* exponent the chain of pow22501 and invert makes being 2^255 - 21; so
\* a * a.invert() is 1 mod p when a is not 0 mod p, and invert of 0 is 0.
C14_InvertIsTheInverse ==
    call.op = "FieldElement::invert" =>
        /\ call.exponent = PMinusTwoExponent
        /\ FieldElement_encode(call.ret)
               = ToLE(PowP(call.arg, P - 2), ScalarBytes)
        /\ call.arg % P # 0 => MulP(call.arg, call.ret) = 1
        /\ call.arg % P = 0 => call.ret % P = 0

\* invert has run on an element that is neither 0, 1 nor -1 and is not
\* reduced.
C14_Witness ==
    /\ call.op = "FieldElement::invert"
    /\ call.arg > P + 1
    /\ call.ret % P \notin {0, 1, P - 1}
    /\ MulP(call.arg, call.ret) = 1

\* The encoding of [a]A + [b]B, by affine arithmetic.
NaiveDoubleScalarMultiply(a, b, A) ==
    AffineEncode(AffineAdd(AffineMul(FromLE(a), ToAffine(A)),
                           AffineMul(FromLE(b), BasePoint)))

\* C15: for every curve point A in P3 form and all scalars a and b,
\* double_scalar_multiply_vartime(a, b, A).encode() is the encoding of
\* [a]A + [b]B.
C15_DoubleScalarMultiplyIsNaive ==
    call.op = "P2::double_scalar_multiply_vartime" =>
        call.ret = NaiveDoubleScalarMultiply(
                       call.arg[1], call.arg[2], call.arg[3])

\* The digits of slide stand for the scalar: no carry left bit 255.
SlideIsExact(a) ==
    LET r == slide(a)
        RECURSIVE value(_)
        value(i) == IF i > ScalarBits THEN 0 ELSE r[i] + 2 * value(i + 1)
    IN  value(1) = FromLE(a)

\* double_scalar_multiply_vartime returns [a]A + [b]B whenever slide
\* keeps both scalars, which it does for every scalar below 2^255.
DoubleScalarMultiplyBelowTopBit ==
    call.op = "P2::double_scalar_multiply_vartime" =>
        /\ FromLE(call.arg[1]) < 2^FieldBits => SlideIsExact(call.arg[1])
        /\ FromLE(call.arg[2]) < 2^FieldBits => SlideIsExact(call.arg[2])
        /\ SlideIsExact(call.arg[1]) /\ SlideIsExact(call.arg[2])
               => call.ret = NaiveDoubleScalarMultiply(
                                 call.arg[1], call.arg[2], call.arg[3])

\* C16: for every scalar a, scalar_multiply(a) and
\* scalar_multiply_without_precomputation(a) encode to the same bytes, the
\* encoding of [a]B.
C16_ScalarMultiplyAgreesWithReference ==
    call.op = "Precomp::scalar_multiply" =>
        /\ call.ret = call.reference
        /\ call.ret = AffineEncode(AffineMul(FromLE(call.arg), BasePoint))

\* C16, for the scalars with a[31] <= 127: the two multiplications encode
\* to the same bytes, the encoding of [a]B; and the bitwise one encodes
\* [a]B for every scalar.
C16_ScalarMultiplyBelowTopBit ==
    call.op = "Precomp::scalar_multiply" =>
        /\ call.reference
               = AffineEncode(AffineMul(FromLE(call.arg), BasePoint))
        /\ call.arg[ScalarBytes] <= 127 => call.ret = call.reference

\* The two multiplications have run on a scalar of more than the group
\* order whose last byte is 127 and whose last digit in radix 16 is 8.
C16_Witness ==
    /\ call.op = "Precomp::scalar_multiply"
    /\ call.arg[ScalarBytes] = 127
    /\ radix16(call.arg)[2 * ScalarBytes] = 8
    /\ call.ret = call.reference
    /\ call.ret # AffineEncode(AffineZero)

\* C17: for a FieldElement f whose limbs are each below 2^54,
\* FieldElement::decode(f.encode()) equals f under field equality, the
\* equality of encodings; its limbs are those of value(f) mod p.
C17_DecodeOfEncodeIsEqual ==
    call.op = "FieldElement::encode" =>
        /\ FieldElement_ct_eq_limbs(call.decoded, call.arg) = 1
        /\ LimbValue(call.decoded) = DigitsModP(LimbValue(call.arg))

\* decode has run on the encoding of an element of p or more with a limb
\* above its width: the limbs returned are not the limbs encoded.
C17_Witness ==
    /\ call.op = "FieldElement::encode"
    /\ call.arg[5] > Reduce51Mask
    /\ ~DigitsLess(LimbValue(call.arg), PDigits, 6)
    /\ call.decoded # call.arg
    /\ call.decoded[5] # 0
    /\ FieldElement_ct_eq_limbs(call.decoded, call.arg) = 1

\* enc is the encoding of a curve point: y is below p and the curve has an
\* x for it whose low bit is the top bit.
IsPointEncoding(enc) ==
    /\ EncodedY(enc) < P
    /\ AffineDecode(enc).some
    /\ AffineEncode(AffineDecode(enc).value) = enc

\* C18: for every encoding e of a curve point whose x is not 0,
\* P3::decode(e) returns the point with the encoded y and the x whose low
\* bit is the complement of bit 255 of e, the negation of the encoded
\* point, and the encoding of that point is e with bit 255 flipped; for the
\* y of the base point with sign bit 0 it returns X = -B.X and T = -B.T.
C18_DecodeNegates ==
    call.op = "P3::decode" /\ IsPointEncoding(call.arg)
            /\ AffineDecode(call.arg).value[1] # 0 =>
        /\ call.ret.some
        /\ FieldElement_encode(call.ret.value.Y)
               = ToLE(EncodedY(call.arg), ScalarBytes)
        /\ FieldElement_is_negative(call.ret.value.X)
               = 1 - EncodedSign(call.arg)
        /\ ToAffine(call.ret.value) = AffineNeg(AffineDecode(call.arg).value)
        /\ call.enc = FlipBit(call.arg, ScalarBits - 1)
        /\ call.arg = BYP =>
               /\ call.ret.value.X % P = (P - BasePoint[1]) % P
               /\ call.ret.value.T % P
                      = (P - MulP(BasePoint[1], BasePoint[2])) % P

\* decode has run on the y of the base point with sign bit 0.
C18_Witness ==
    /\ call.op = "P3::decode"
    /\ call.arg = BYP
    /\ IsPointEncoding(call.arg)
    /\ call.ret.some
    /\ call.ret.value.X % P = (P - BasePoint[1]) % P
    /\ call.enc = FlipBit(BYP, ScalarBits - 1)

\* u / v is a square mod p, by Euler's criterion: 0, or a value whose power
\* (p - 1) / 2 is 1.
IsSquareRatio(u, v) ==
    LET euler(w) == w = 0 \/ PowP(w, (P - 1) \div 2) = 1
    IN  euler(MulP(u, InvP(v)))

\* C19: P3::decode(e) returns None exactly when (y^2 - 1) / (d y^2 + 1) is
\* not a square mod p, y being the low 255 bits of e; every point it
\* returns has Z = 1 and T = X Y and is on the curve.
C19_DecodeIsNoneIffNotSquare ==
    call.op = "P3::decode" =>
        LET y == EncodedY(call.arg) % P
            yy == MulP(y, y)
        IN  /\ ~call.ret.some
                <=> ~IsSquareRatio((yy + P - 1) % P, (MulP(D, yy) + 1) % P)
            /\ call.ret.some =>
                   /\ call.ret.value.Z = FieldOne
                   /\ call.ret.value.T % P
                          = MulP(call.ret.value.X, call.ret.value.Y)
                   /\ call.ret.value.Y % P = y
                   /\ OnCurve(ToAffine(call.ret.value))

\* decode has returned None for a canonical y whose ratio is not a square.
C19_Witness ==
    /\ call.op = "P3::decode"
    /\ ~call.ret.some
    /\ EncodedY(call.arg) < P
    /\ ~AffineDecode(call.arg).some

RECURSIVE DigitsToNibbles(_, _, _)
\* The sum of e[i] 16^i over the signed digits from i onwards, plus the
\* carry, as nibbles 0..15 followed by what is left above the last digit.
DigitsToNibbles(e, i, carry) ==
    IF i > Len(e) THEN <<carry>>
    ELSE LET nibble == (e[i] + carry) % 16
         IN  <<nibble>>
                 \o DigitsToNibbles(e, i + 1, (e[i] + carry - nibble) \div 16)

\* The scalar a as nibbles, with nothing above the last.
ScalarNibbles(a) ==
    [i \in 1..(2 * Len(a) + 1) |->
        IF i > 2 * Len(a) THEN 0
        ELSE IF i % 2 = 1 THEN a[(i + 1) \div 2] % 16
        ELSE a[i \div 2] \div 16]

SlideTableIndex(d) == IF d > 0 THEN d \div 2 ELSE (0 - d) \div 2

\* C21: every entry of P2::slide is 0 or odd with absolute value at most
\* 15, no i8 expression of slide leaves -128..127, every index into the
\* slide array lies in 0..255, and every index into AI or BI that a
\* nonzero digit gives lies in 0..7.
C21_SlideDigitsAndIndexes ==
    call.op = "P2::slide" =>
        /\ call.checked.r = call.ret
        /\ Len(call.ret) = 256
        /\ \A i \in 1..Len(call.ret) :
               /\ call.ret[i] \in (0 - 15)..15
               /\ call.ret[i] = 0 \/ call.ret[i] % 2 = 1
               /\ call.ret[i] # 0 => SlideTableIndex(call.ret[i]) \in 0..7
        /\ call.checked.lo >= -128
        /\ call.checked.hi <= 127
        /\ call.checked.index \in 0..255

\* A scalar whose windows both add and subtract, with a carry.
C21_Witness ==
    /\ call.op = "P2::slide"
    /\ \E i \in 1..Len(call.ret) : call.ret[i] < -1
    /\ \E i \in 1..Len(call.ret) : call.ret[i] > 1
    /\ call.checked.hi > 15
    /\ call.checked.lo < 0
    /\ C21_SlideDigitsAndIndexes

RECURSIVE SlideBytes(_, _, _)
\* The number the digits r stand for, the sum of r[i] 2^i, byte by byte
\* from byte k on with the carry c of the bytes below: its bytes modulo
\* 2^(8 * bytes), and what is left over as a multiple of 2^(8 * bytes).
SlideBytes(r, k, c) ==
    IF 8 * k >= Len(r) THEN [bytes |-> <<>>, carry |-> c]
    ELSE LET RECURSIVE sum(_)
             sum(j) == IF j = 8 THEN 0 ELSE r[8 * k + j + 1] * 2^j + sum(j + 1)
             rest(t) == SlideBytes(r, k + 1, t \div 256)
             join(t, s) == [bytes |-> <<t % 256>> \o s.bytes, carry |-> s.carry]
             byte(t) == join(t, rest(t))
         IN  byte(sum(0) + c)

\* C22: for every 32-byte scalar a with bit 255 clear, the digits of
\* slide(a) stand for a: the sum of r[i] 2^i is a, no carry is lost.
C22_SlideIsExactBelowTopBit ==
    (call.op = "P2::slide" /\ call.arg[RadixBytes] <= 127) =>
        SlideBytes(call.ret, 0, 0) = [bytes |-> call.arg, carry |-> 0]

\* A scalar just below 2^255 with ones up to bit 254, where windows are
\* subtracted and the carry runs to the top.
C22_Witness ==
    /\ call.op = "P2::slide"
    /\ call.arg[RadixBytes] = 127
    /\ call.arg[RadixBytes - 1] = 255
    /\ \E i \in 1..Len(call.ret) : call.ret[i] < 0
    /\ call.ret[Len(call.ret)] = 1
    /\ SlideBytes(call.ret, 0, 0) = [bytes |-> call.arg, carry |-> 0]

\* Above 2^255 the carry can be lost: the digits stand for a - 2^256.
SlideLosesCarryAboveTopBit ==
    /\ call.op = "P2::slide"
    /\ call.arg[RadixBytes] > 127
    /\ SlideBytes(call.ret, 0, 0) = [bytes |-> call.arg, carry |-> -1]

\* C23: in every subtraction a - b of P2::double on reduced coordinates,
\* each difference (a[i] + 2p[i]) - b[i] is non-negative, x = b - (yy + xx)
\* included: no limb wraps or panics.
C23_SubtractionNeverBorrows ==
    call.op = "P2::double" =>
        \A k \in {"z", "x", "t"}, i \in 1..5 : call.terms[k][i] >= 0

\* What holds of P2::double: z = yy - xx and t = a - z do not borrow, and
\* x = b - (yy + xx) borrows in limb 0 or limb 2 only.
DoubleBorrowsInXOnly ==
    call.op = "P2::double" =>
        /\ \A k \in {"z", "t"}, i \in 1..5 : call.terms[k][i] >= 0
        /\ \A i \in {2, 4, 5} : call.terms["x"][i] >= 0

\* x = b - (yy + xx) borrows in limb 0: the build with the checks panics.
DoubleBorrows ==
    /\ call.op = "P2::double"
    /\ call.terms["x"][1] < 0
    /\ call.build = "debug"
    /\ call.ret = [panic |-> TRUE]

\* C24: for every table position pos and every digit b in [-8, 8],
\* select(pos, 0) is the identity (1, 1, 0), select(pos, b) for b > 0 is
\* PRECOMP_BASE[pos][b - 1], and for b < 0 it is PRECOMP_BASE[pos][-b - 1]
\* with YpX and YmX exchanged and XY2d negated.
C24_SelectReturnsTheRow ==
    call.op = "select" =>
        LET pos == call.arg[1]
            b == call.arg[2]
            row == PRECOMP_BASE[pos + 1][IF b > 0 THEN b ELSE 0 - b]
        IN  IF b = 0
            THEN call.ret = [YpX |-> 1, YmX |-> 1, XY2d |-> 0]
            ELSE IF b > 0
            THEN call.ret = row
            ELSE /\ call.ret.YpX = row.YmX
                 /\ call.ret.YmX = row.YpX
                 /\ (call.ret.XY2d + row.XY2d) % P = 0

\* The last row of the last position, negated.
C24_Witness ==
    /\ call.op = "select"
    /\ call.arg = <<ScalarBytes - 1, -8>>
    /\ call.ret.YpX = PRECOMP_BASE[ScalarBytes][8].YmX
    /\ call.ret.YpX # call.ret.YmX
    /\ call.ret.XY2d % P # 0
    /\ call.ret.XY2d % P # PRECOMP_BASE[ScalarBytes][8].XY2d % P

TopDigit(aslide, bslide) ==
    IF \A i \in 1..Len(aslide) : aslide[i] = 0 /\ bslide[i] = 0 THEN -1
    ELSE CHOOSE i \in 0..(Len(aslide) - 1) :
             /\ aslide[i + 1] # 0 \/ bslide[i + 1] # 0
             /\ \A j \in (i + 1)..(Len(aslide) - 1) :
                    aslide[j + 1] = 0 /\ bslide[j + 1] = 0

\* While double_scalar_multiply_vartime runs, i is an index of the digits
\* and r.double() has been called at most top + 1 times; when it has
\* returned, it has been called exactly top + 1 times, and with no digit
\* the value is the identity (0, 1, 1).
DsmRunIsBounded ==
    ~IdleCall =>
        LET s == call.run
            top == TopDigit(s.aslide, s.bslide)
        IN  /\ s.i \in 0..(ScalarBits - 1)
            /\ s.doublings <= top + 1
            /\ s.doublings <= ScalarBits
            /\ s.at = "returned" =>
                   /\ s.doublings = top + 1
                   /\ top = -1 => s.r = [X |-> 0, Y |-> 1, Z |-> 1]

\* The rounds compute the function: what a returned call holds in r is
\* double_scalar_multiply_vartime(a, b, A).
DsmRunIsTheFunction ==
    (~IdleCall /\ call.run.at = "returned") =>
        call.run.r = double_scalar_multiply_vartime(
                         call.arg[1], call.arg[2], call.arg[3])

\* C26: double_scalar_multiply_vartime terminates for all inputs, after
\* exactly top + 1 doublings (at most 256), top being the highest index
\* with a nonzero digit; i never goes below 0; and with no nonzero digit
\* it returns the identity (0, 1, 1) without doubling.
C26_DsmTerminates ==
    /\ []DsmRunIsBounded
    /\ (~IdleCall) ~> (~IdleCall /\ call.run.at = "returned")

\* A call that returned after a doubling for every digit.
C26_Witness ==
    /\ ~IdleCall
    /\ call.run.at = "returned"
    /\ call.run.doublings = ScalarBits
    /\ call.run.i = 0
    /\ call.run.r # P2_zero

\* A call with no digit: returned from the first loop.
DsmReturnsIdentity ==
    /\ ~IdleCall
    /\ call.run.at = "returned"
    /\ call.run.doublings = 0
    /\ call.run.r = P2_zero

\* enc is not a canonical point encoding: y is p or more, or x is 0 and
\* the top bit is set.
IsNonCanonical(enc) ==
    \/ EncodedY(enc) >= P
    \/ /\ EncodedY(enc) \in {1, P - 1}
       /\ EncodedSign(enc) = 1

\* C27: verify never returns Ok for a signature whose first half is not a
\* canonical point encoding: R is compared byte for byte with the output
\* of P2::encode, which is canonical.
C27_NonCanonicalRIsRejected ==
    (verifying.called /\ IsNonCanonical(RHalf(verifying.signature))) =>
        verifying.result # "Ok"

\* R is the identity with p added to y and S makes [S]B - [k]A the
\* identity: the points agree, the bytes do not.
C27_Witness ==
    /\ verifying.called
    /\ verifying.kind = "forged_R"
    /\ RHalf(verifying.signature) = ToLE(P + 1, ScalarBytes)
    /\ PublicKey_verify_decoding_R(seed, verifying.public, verifying.message,
                                   verifying.signature).result = "Ok"
    /\ verifying.result = "SignatureMismatch"

\* The key pair was made by Keypair::from_bytes with a public half that
\* is not the key derived from the secret half, and its verify has been
\* given the signature its sign made.
MismatchedVerified ==
    /\ verifying.called
    /\ verifying.kind = "signed"
    /\ signing.by = "Keypair::sign"
    /\ keypair.by = "from_bytes"
    /\ keypair.public # DerivedPublicKey(keypair.secret)

\* sign does not look at its public key argument except to hash it: the R
\* half is the same for every argument and the signature is enc([r]B)
\* followed by (r + k a) mod l with k the hash of R, the argument and the
\* message.
SignIgnoresPublicKey ==
    signing.called =>
        /\ \A public \in PublicHalves(keypair.secret) :
               RHalf(SecretKey_sign(seed, keypair.secret, public,
                                    signing.message).signature)
                   = RHalf(signing.signature)
        /\ signing.signature =
               ExpectedSignature(seed, keypair.secret, signing.public,
                                 signing.message)

\* C28: SecretKey::sign returns the same R half for every public key
\* argument and S = r + k a mod l with k depending on the argument;
\* Keypair::from_bytes accepts halves that do not match; and a Keypair
\* whose halves do not match produces signatures its own verify rejects.
C28_MismatchedKeypairIsRejected ==
    /\ SignIgnoresPublicKey
    /\ MismatchedVerified => verifying.result # "Ok"

\* The same, with what verify does with the signature of a mismatched
\* Keypair: it returns Ok exactly when the public half A' decodes and
\* [k](A - A') is the identity, A being the derived key, and an error
\* otherwise.
C28_MismatchedKeypairUpToTorsion ==
    /\ SignIgnoresPublicKey
    /\ MismatchedVerified =>
           LET A == AffineDecode(DerivedPublicKey(keypair.secret)).value
               other == AffineDecode(keypair.public)
               k == ChallengeOf(seed, RHalf(signing.signature),
                                keypair.public, signing.message)
           IN  verifying.result = "Ok"
                   <=> /\ other.some
                       /\ AffineMul(k, AffineAdd(A, AffineNeg(other.value)))
                              = AffineZero

\* A mismatched Keypair whose verify rejects its signature.
C28_Witness ==
    /\ MismatchedVerified
    /\ keypair.public = ForeignPublicKey
    /\ verifying.result = "SignatureMismatch"
    /\ signing.message # <<>>

\* A mismatched Keypair whose verify accepts its signature: the public
\* half is the derived key plus a point of small order.
MismatchedKeypairIsAccepted ==
    /\ MismatchedVerified
    /\ AffineDecode(keypair.public).some
    /\ AffineDecode(keypair.public).value
           # AffineDecode(DerivedPublicKey(keypair.secret)).value
    /\ verifying.result = "Ok"

\* The scalar and the select calls of a scalar_multiply are in range: the
\* top byte at most 127, every digit in -8..8, every position in the table.
PassedInRange(p) ==
    /\ p.scalar[ScalarBytes] <= 127
    /\ Len(p.selects) = 2 * ScalarBytes
    /\ \A n \in 1..Len(p.selects) :
           /\ p.selects[n].b \in -8..8
           /\ p.selects[n].pos \in TablePositions

\* C29: every scalar that Keypair::generate, PublicKey::generate and
\* SecretKey::sign pass to Precomp::scalar_multiply has its top byte at
\* most 127: the clamped scalar has its top byte in 64..127 and the low
\* three bits of byte 0 clear, the reduced nonce is below the group order;
\* every digit select receives is in -8..8 and every position in the table;
\* Keypair::generate and Keypair::generate_public_key derive the same
\* public key from the same secret bytes.
C29_ScalarsAreInRange ==
    /\ Generated =>
           /\ keypair.passed.scalar = SubSeq(keypair.locals.h, 1, ScalarBytes)
           /\ keypair.passed.scalar[ScalarBytes] \in 64..127
           /\ keypair.passed.scalar[1] % 8 = 0
           /\ PassedInRange(keypair.passed)
           /\ keypair.public = Keypair_generate(seed, keypair.secret).public
           /\ keypair.public
                  = Keypair_generate_public_key(seed, keypair.secret).public
    /\ signing.called =>
           /\ FromLE(signing.passed.scalar) < GroupOrder
           /\ PassedInRange(signing.passed)

\* A key made by generate_public_key has signed, and a select call got a
\* negative digit.
C29_Witness ==
    /\ Generated
    /\ keypair.by = "generate_public_key"
    /\ signing.called
    /\ \E n \in 1..(2 * ScalarBytes) : keypair.passed.selects[n].b < 0
    /\ \E n \in 1..(2 * ScalarBytes) : signing.passed.selects[n].b < 0

NonCanonicalKeyVerified ==
    /\ verifying.called
    /\ verifying.kind = "noncanonical_A"

\* Two outputs of P3::decode are the same point: both None, or the same X,
\* Z and T, the same Y modulo p and the same encoding.
SameDecoded(d, c) ==
    /\ d.some = c.some
    /\ d.some =>
           /\ d.value.X = c.value.X
           /\ d.value.Z = c.value.Z
           /\ d.value.T = c.value.T
           /\ (d.value.Y - c.value.Y) % P = 0
           /\ P3_encode(d.value) = P3_encode(c.value)

\* C30: P3::decode does not reject an encoding for not being canonical: an
\* input with y' >= p in its low bits decodes as the encoding of y' - p with
\* the same top bit does, and an encoding with x = 0 and the top bit set
\* decodes to the point with x = 0; PublicKey::from_bytes accepts such
\* keys, and verify uses the decoded point: it returns Ok exactly when S
\* passes the range check and the equation holds for that point.
C30_DecodeAcceptsNonCanonical ==
    NonCanonicalKeyVerified =>
        /\ verifying.key = Ok(Contained(verifying.public, PublicKeySize))
        /\ SameDecoded(verifying.decoded, verifying.canonical)
        /\ verifying.decoded.some
               = AffineDecode(CanonicalY(verifying.public)).some
        /\ (EncodedY(verifying.public) % P \in {1, P - 1}
               /\ EncodedSign(verifying.public) = 1)
               => /\ verifying.decoded.some
                  /\ verifying.decoded.value.X % P = 0
        /\ verifying.result = "InvalidSignature"
               <=> \/ check_lt_l_scalar(SHalf(verifying.signature))
                   \/ ~verifying.decoded.some
        /\ verifying.result = "Ok"
               <=> /\ ~check_lt_l_scalar(SHalf(verifying.signature))
                   /\ EquationHolds(seed, verifying.public,
                                    verifying.message, verifying.signature)

\* A key with y' >= p decoded and a signature verified under it.
C30_Witness ==
    /\ NonCanonicalKeyVerified
    /\ EncodedY(verifying.public) >= P
    /\ verifying.decoded.some
    /\ verifying.result = "Ok"

\* A key with x = 0 and the top bit set decoded and a signature verified
\* under it.
ZeroXWithSignBitIsUsed ==
    /\ NonCanonicalKeyVerified
    /\ EncodedY(verifying.public) = P - 1
    /\ EncodedSign(verifying.public) = 1
    /\ verifying.decoded.some
    /\ verifying.result = "Ok"

=============================================================================
